---- MODULE Spec2Model ----
(***************************************************************************)
(* PDF outline extractor (backend/round_1A.py): extract_pdf_outline and    *)
(* the batch driver process_all, as a state machine.                       *)
(*                                                                         *)
(* Text is a sequence of characters, a character is a one-token string.    *)
(* Some characters outside ASCII are part of the alphabet because Python   *)
(* treats them specially: "dotless_i" (U+0131: upper() is "I", and         *)
(* "I".lower() is "i", so upper/lower do not round-trip), "nbsp" (U+00A0:  *)
(* whitespace for \s, strip() and split(), NFKC maps it to " "), and the   *)
(* Greek iota with its two combining marks (U+0390 uppercases to the three *)
(* characters U+0399 U+0308 U+0301, which NFKC composes to U+03AA U+0301). *)
(* A combining mark follows nothing but an iota in the texts of the model. *)
(* Font sizes, coordinates and page heights are integers (points); the     *)
(* median is kept doubled (Median2) so that the mean of two middle values  *)
(* stays an integer, and every ratio test is cross-multiplied.             *)
(***************************************************************************)
EXTENDS Integers, Sequences, FiniteSets, TLC

\* ------------------------------------------------------------ characters

LowerLetters ==
  <<"a","b","c","d","e","f","g","h","i","j","k","l","m",
    "n","o","p","q","r","s","t","u","v","w","x","y","z">>

UpperLetters ==
  <<"A","B","C","D","E","F","G","H","I","J","K","L","M",
    "N","O","P","Q","R","S","T","U","V","W","X","Y","Z">>

DotlessI == "dotless_i"

Nbsp == "nbsp"

AsciiLower == {LowerLetters[i] : i \in 1..26}

AsciiUpper == {UpperLetters[i] : i \in 1..26}

Digits == {"0","1","2","3","4","5","6","7","8","9"}

Spaces == {" ", "tab", Nbsp}

Punct == {".", ",", ";", "!", "?", ":", "(", ")", "/", "-", "_", "=", "*", "#", "~", "backtick", "^"}

\* U+03B9, U+03CA, U+03AF, U+0390: iota, with dialytika, with tonos, with both
GreekLower == <<"iota", "iota_dialytika", "iota_tonos", "iota_dialytika_tonos">>

\* U+0399, U+03AA, U+038A
GreekUpper == <<"Iota", "Iota_dialytika", "Iota_tonos">>

\* U+0308 (combining diaeresis) and U+0301 (combining acute)
Marks == {"dialytika", "tonos"}

GreekLetters == {GreekLower[i] : i \in 1..4} \cup {GreekUpper[i] : i \in 1..3}

Alphabet ==
  AsciiLower \cup AsciiUpper \cup {DotlessI} \cup Digits \cup Spaces \cup Punct
  \cup GreekLetters \cup Marks

\* str.isalpha / islower / isupper / isalnum on one character
IsAlpha(c) == c \in AsciiLower \cup AsciiUpper \cup {DotlessI} \cup GreekLetters

IsLowerChar(c) == c \in AsciiLower \cup {DotlessI} \cup {GreekLower[i] : i \in 1..4}

IsUpperChar(c) == c \in AsciiUpper \cup {GreekUpper[i] : i \in 1..3}

IsAlnum(c) == IsAlpha(c) \/ c \in Digits

\* str.upper() on one character, a string: U+0131 uppercases to ASCII "I",
\* U+0390 (no uppercase form of its own) to Iota and the two marks
UpperChar(c) ==
  IF c \in AsciiLower THEN <<UpperLetters[CHOOSE i \in 1..26 : LowerLetters[i] = c]>>
  ELSE IF c = DotlessI THEN <<"I">>
  ELSE IF c = "iota_dialytika_tonos" THEN <<"Iota", "dialytika", "tonos">>
  ELSE IF \E i \in 1..3 : GreekLower[i] = c
       THEN <<GreekUpper[CHOOSE i \in 1..3 : GreekLower[i] = c]>>
  ELSE <<c>>

\* str.lower() on one character: "I" lowercases to "i", never back to U+0131
LowerChar(c) ==
  IF c \in AsciiUpper THEN LowerLetters[CHOOSE i \in 1..26 : UpperLetters[i] = c]
  ELSE IF \E i \in 1..3 : GreekUpper[i] = c
       THEN GreekLower[CHOOSE i \in 1..3 : GreekUpper[i] = c]
  ELSE c

\* ------------------------------------------------------- string helpers

Lower(s) == [i \in 1..Len(s) |-> LowerChar(s[i])]

\* str.isupper(): some cased character, and no lowercase one
IsUpperStr(s) ==
  /\ \E i \in 1..Len(s) : IsUpperChar(s[i])
  /\ \A i \in 1..Len(s) : ~IsLowerChar(s[i])

RECURSIVE LStrip(_)
LStrip(s) == IF s # <<>> /\ Head(s) \in Spaces THEN LStrip(Tail(s)) ELSE s

RECURSIVE RStrip(_)
RStrip(s) ==
  IF s # <<>> /\ s[Len(s)] \in Spaces THEN RStrip(SubSeq(s, 1, Len(s) - 1)) ELSE s

\* str.strip()
Strip(s) == RStrip(LStrip(s))

\* str.rstrip(ch) for one character
RECURSIVE RStripChar(_, _)
RStripChar(s, ch) ==
  IF s # <<>> /\ s[Len(s)] = ch THEN RStripChar(SubSeq(s, 1, Len(s) - 1), ch) ELSE s

\* str.split(): the maximal runs of non-whitespace characters
RECURSIVE SplitFrom(_, _, _)
SplitFrom(s, i, cur) ==
  IF i > Len(s) THEN (IF cur = <<>> THEN <<>> ELSE <<cur>>)
  ELSE IF s[i] \in Spaces
       THEN (IF cur = <<>> THEN <<>> ELSE <<cur>>) \o SplitFrom(s, i + 1, <<>>)
       ELSE SplitFrom(s, i + 1, Append(cur, s[i]))

Split(s) == SplitFrom(s, 1, <<>>)

WordCount(s) == Len(Split(s))

\* str.endswith(tuple of one-character suffixes)
EndsWithAny(s, chars) == s # <<>> /\ s[Len(s)] \in chars

RECURSIVE Concat(_)
Concat(ss) == IF ss = <<>> THEN <<>> ELSE Head(ss) \o Concat(Tail(ss))

\* the canonical compositions of an iota and a combining mark
Compositions ==
  {<<"iota", "dialytika", "iota_dialytika">>, <<"iota", "tonos", "iota_tonos">>,
   <<"Iota", "dialytika", "Iota_dialytika">>, <<"Iota", "tonos", "Iota_tonos">>,
   <<"iota_dialytika", "tonos", "iota_dialytika_tonos">>}

\* out, then the composition of the rest of s onto it
RECURSIVE ComposeOnto(_, _)
ComposeOnto(out, s) ==
  IF s = <<>> THEN out
  ELSE IF out # <<>> /\ \E t \in Compositions : t[1] = out[Len(out)] /\ t[2] = Head(s)
       THEN LET t == CHOOSE t \in Compositions : t[1] = out[Len(out)] /\ t[2] = Head(s)
            IN  ComposeOnto([out EXCEPT ![Len(out)] = t[3]], Tail(s))
       ELSE ComposeOnto(Append(out, Head(s)), Tail(s))

\* unicodedata.normalize("NFKC", .) on the alphabet: U+00A0 becomes a space,
\* an iota and the marks after it are composed
NFKC(s) ==
  IF \A i \in 1..Len(s) : s[i] \notin Marks
  THEN [i \in 1..Len(s) |-> IF s[i] = Nbsp THEN " " ELSE s[i]]
  ELSE ComposeOnto(<<>>, [i \in 1..Len(s) |-> IF s[i] = Nbsp THEN " " ELSE s[i]])

\* re.sub(r"\s+", " ", .): every run of whitespace becomes one space
RECURSIVE CollapseWs(_)
CollapseWs(s) ==
  IF s = <<>> THEN <<>>
  ELSE IF Head(s) \in Spaces
       THEN <<" ">> \o CollapseWs(LStrip(s))
       ELSE <<Head(s)>> \o CollapseWs(Tail(s))

normalize_text(text) == Strip(CollapseWs(NFKC(text)))

\* Uppercase the first alphabetic character, leave the rest
capitalize_first_letter(text) ==
  IF \E i \in 1..Len(text) : IsAlpha(text[i])
  THEN LET i == CHOOSE k \in 1..Len(text) :
                  IsAlpha(text[k]) /\ \A j \in 1..(k - 1) : ~IsAlpha(text[j])
       IN  SubSeq(text, 1, i - 1) \o UpperChar(text[i]) \o SubSeq(text, i + 1, Len(text))
  ELSE text

\* ------------------------------------------------------------------ re
\* A pattern is a sequence of items [cls, lo, hi, unb]: at least lo characters
\* of the class cls, and at most hi of them unless unb (the quantifiers + and *).

Item(cls, lo, hi) == [cls |-> cls, lo |-> lo, hi |-> hi, unb |-> FALSE]

Lit(c) == Item({c}, 1, 1)

Opt(c) == Item({c}, 0, 1)

Plus(cls) == [cls |-> cls, lo |-> 1, hi |-> 1, unb |-> TRUE]

Star(cls) == [cls |-> cls, lo |-> 0, hi |-> 0, unb |-> TRUE]

AtLeast(cls, lo) == [cls |-> cls, lo |-> lo, hi |-> lo, unb |-> TRUE]

\* the literal characters of a word, one item each
Word(w) == [i \in 1..Len(w) |-> Lit(w[i])]

\* the pattern items pi.. match text from si, having taken cnt characters
\* for item pi; full: the match must end at the end of the text
RECURSIVE REFrom(_, _, _, _, _, _)
REFrom(pat, s, pi, si, cnt, full) ==
  IF pi > Len(pat) THEN (~full \/ si = Len(s) + 1)
  ELSE \/ cnt >= pat[pi].lo /\ REFrom(pat, s, pi + 1, si, 0, full)
       \/ /\ (pat[pi].unb \/ cnt < pat[pi].hi)
          /\ si <= Len(s)
          /\ s[si] \in pat[pi].cls
          /\ REFrom(pat, s, pi, si + 1, cnt + 1, full)

\* re.fullmatch(pat, s)
FullMatch(pat, s) == REFrom(pat, s, 1, 1, 0, TRUE)

\* re.match(pat, s) for a pattern without a trailing $
PrefixMatch(pat, s) == REFrom(pat, s, 1, 1, 0, FALSE)

\* re.search(pat, s)
Search(pat, s) == \E st \in 1..(Len(s) + 1) : REFrom(pat, s, 1, st, 0, FALSE)

\* ---------------------------------------------------------- classifiers

signature_words ==
  {<<"d","a","t","e">>, <<"s","i","g","n","a","t","u","r","e">>, <<"s","i","g","n">>,
    <<"n","a","m","e">>, <<"w","i","t","n","e","s","s">>, <<"s","e","a","l">>,
    <<"s","t","a","m","p">>, <<"a","p","p","r","o","v","e","d">>,
    <<"v","e","r","i","f","i","e","d">>, <<"c","h","e","c","k","e","d">>,
    <<"a","u","t","h","o","r","i","z","e","d">>, <<"p","l","a","c","e">>}

form_labels ==
  {<<"a","d","d","r","e","s","s">>, <<"p","h","o","n","e">>, <<"e","m","a","i","l">>,
    <<"r","s","v","p">>, <<"c","o","n","t","a","c","t">>,
    <<"l","o","c","a","t","i","o","n">>, <<"v","e","n","u","e">>, <<"t","i","m","e">>,
    <<"d","a","t","e">>, <<"w","h","e","n">>, <<"w","h","e","r","e">>, <<"w","h","o">>,
    <<"w","h","a","t">>, <<"d","e","t","a","i","l","s">>, <<"i","n","f","o">>,
    <<"i","n","f","o","r","m","a","t","i","o","n">>, <<"n","o","t","i","c","e">>,
    <<"a","n","n","o","u","n","c","e","m","e","n","t">>, <<"w","a","r","n","i","n","g">>,
    <<"a","t","t","e","n","t","i","o","n">>, <<"n","o","t","e">>, <<"m","e","m","o">>,
    <<"s","u","b","j","e","c","t">>, <<"f","r","o","m">>, <<"t","o">>, <<"c","c">>,
    <<"b","c","c">>}

\* text.rstrip(':').strip() of the lowercased normalized text
LabelKey(text) == Strip(RStripChar(Strip(Lower(normalize_text(text))), ":"))

is_signature_field(text) == LabelKey(text) \in signature_words

is_form_label(text) == LabelKey(text) \in form_labels

\* [A-Za-z] under re.IGNORECASE also matches U+0131
LettersIC == AsciiLower \cup AsciiUpper \cup {DotlessI}

date_patterns ==
  << <<Item(Digits, 1, 2), Plus(Spaces), Item(LettersIC, 3, 9), Plus(Spaces), Item(Digits, 4, 4)>>,
     <<Item(Digits, 1, 2), Item({"/", "-"}, 1, 1), Item(Digits, 1, 2),
       Item({"/", "-"}, 1, 1), Item(Digits, 2, 4)>>,
     <<Item(LettersIC, 3, 9), Plus(Spaces), Item(Digits, 4, 4)>>,
     <<Item(Digits, 4, 4)>> >>

\* www\.|\.com|\.org|\.net|https?://
url_patterns ==
  << Word(<<"w","w","w",".">>),
     Word(<<".","c","o","m">>),
     Word(<<".","o","r","g">>),
     Word(<<".","n","e","t">>),
     Word(<<"h","t","t","p">>) \o <<Opt("s")>> \o Word(<<":","/","/">>) >>

\* page\s+\d+, figure\s+\d+, table\s+\d+, \d+\s*/\s*\d+
page_patterns ==
  << Word(<<"p","a","g","e">>) \o <<Plus(Spaces), Plus(Digits)>>,
     Word(<<"f","i","g","u","r","e">>) \o <<Plus(Spaces), Plus(Digits)>>,
     Word(<<"t","a","b","l","e">>) \o <<Plus(Spaces), Plus(Digits)>>,
     <<Plus(Digits), Star(Spaces), Lit("/"), Star(Spaces), Plus(Digits)>> >>

AlnumCount(text) == Cardinality({i \in 1..Len(text) : IsAlnum(text[i])})

NoiseRules(text) ==
  \/ Len(text) < 2
  \/ FullMatch(<<Plus(Digits)>>, text)
  \/ \E k \in 1..Len(date_patterns) : FullMatch(date_patterns[k], text)
  \/ \E low \in {Lower(text)} : \E k \in 1..Len(url_patterns) : Search(url_patterns[k], low)
  \/ FullMatch(<<Lit("("), Star(Alphabet \ {")"}), Lit(")")>>, text)
  \/ FullMatch(<<AtLeast({"-", "_", "=", "*", "#", "~", "backtick", "^"}, 3)>>, text)
  \/ \E low \in {Lower(text)} : \E k \in 1..Len(page_patterns) : Search(page_patterns[k], low)
  \/ WordCount(text) > 15
  \/ AlnumCount(text) * 10 < 3 * Len(text)

is_noise_content(text) == \E t \in {normalize_text(text)} : NoiseRules(t)

articles ==
  {<<"t","h","e">>, <<"a">>, <<"a","n">>, <<"t","h","i","s">>, <<"t","h","a","t">>}

HeadingRules(text) ==
  /\ \E i \in 1..Len(text) : IsAlpha(text[i])
  /\ ~EndsWithAny(text, {".", ";", ",", "!", "?"})
  /\ WordCount(text) >= 1
  /\ WordCount(text) <= 12
  /\ Lower(Split(text)[1]) \notin articles
  /\ ~is_signature_field(text)

is_valid_heading(text) == \E t \in {normalize_text(text)} : HeadingRules(t)

TitleRules(text) ==
  /\ \E i \in 1..Len(text) : IsAlpha(text[i])
  /\ ~(is_form_label(text) \/ is_signature_field(text) \/ is_noise_content(text))
  /\ ~(EndsWithAny(text, {".", ";", ",", "?"}) /\ ~EndsWithAny(text, {"!"}))
  /\ WordCount(text) >= 1
  /\ WordCount(text) <= 10

is_valid_title(text) == \E t \in {normalize_text(text)} : TitleRules(t)

serial_patterns ==
  << Word(<<"s","r">>) \o <<Opt("."), Star(Spaces)>> \o Word(<<"n","o">>) \o <<Opt(".")>>,
     Word(<<"s">>) \o <<Opt("."), Star(Spaces)>> \o Word(<<"n","o">>) \o <<Opt(".")>>,
     Word(<<"s","l">>) \o <<Opt("."), Star(Spaces)>> \o Word(<<"n","o">>) \o <<Opt(".")>>,
     Word(<<"s","e","r","i","a","l">>) \o <<Star(Spaces)>> \o Word(<<"n","o">>) \o <<Opt(".")>>,
     Word(<<"n","o">>) \o <<Opt(".")>>,
     <<Lit("#")>>,
     Word(<<"i","t","e","m">>) \o <<Star(Spaces)>> \o Word(<<"n","o">>) \o <<Opt(".")>>,
     <<Plus(Digits), Opt(".")>>,
     <<Plus(Digits), Lit(")")>>,
     <<Plus({"i","v","x","l","c","d","m"}), Opt(".")>>,
     <<Plus({"I","V","X","L","C","D","M"}), Opt(".")>> >>

is_serial_number(text) ==
  \E t \in {Lower(normalize_text(text))} :
     \E k \in 1..Len(serial_patterns) : FullMatch(serial_patterns[k], t)

paragraph_indicators ==
  {<<"t","h","e">>, <<"a","n","d">>, <<"o","r">>, <<"b","u","t">>, <<"i","n">>,
    <<"o","n">>, <<"a","t">>, <<"b","y">>, <<"f","o","r">>, <<"w","i","t","h">>,
    <<"t","h","i","s">>, <<"t","h","a","t">>, <<"t","h","e","s","e">>,
    <<"t","h","o","s","e">>}

ParagraphRules(text) ==
  /\ WordCount(text) >= 3
  /\ \E i \in 1..Len(text) : IsLowerChar(text[i])
  /\ ~(is_noise_content(text) \/ is_signature_field(text))
  /\ \/ EndsWithAny(text, {".", "!", "?", ";"})
     \/ \E ws \in {Split(Lower(text))} : \E k \in 1..Len(ws) : ws[k] \in paragraph_indicators
     \/ /\ WordCount(text) >= 5
        /\ \E i \in 1..Len(text) : IsLowerChar(text[i])
        /\ \E i \in 1..Len(text) : IsUpperChar(text[i])

is_paragraph_content(text) == \E t \in {normalize_text(text)} : ParagraphRules(t)

\* ------------------------------------------------------ numeric helpers

MaxOf(S) == CHOOSE x \in S : \A y \in S : y <= x

MinOf(S) == CHOOSE x \in S : \A y \in S : x <= y

Abs(x) == IF x < 0 THEN -x ELSE x

RECURSIVE SumSeq(_)
SumSeq(q) == IF q = <<>> THEN 0 ELSE Head(q) + SumSeq(Tail(q))

\* tuples of integers in Python's tuple order
RECURSIVE TupleLess(_, _)
TupleLess(a, b) ==
  IF a = <<>> \/ b = <<>> THEN a = <<>> /\ b # <<>>
  ELSE IF Head(a) # Head(b) THEN Head(a) < Head(b)
  ELSE TupleLess(Tail(a), Tail(b))

\* the element of a one-element set
Only(S) == CHOOSE v \in S : TRUE

\* list.sort / sorted: the stable order of the indices 1..n under lt, the
\* set of pairs <<a, b>> with a strictly before b; i has the smallest index of
\* those in order
RECURSIVE InsertStable(_, _, _)
InsertStable(order, i, lt) ==
  IF order = <<>> THEN <<i>>
  ELSE IF <<Head(order), i>> \notin lt
       THEN <<i>> \o order
       ELSE <<Head(order)>> \o InsertStable(Tail(order), i, lt)

\* inserting from the last index down keeps equal keys in their first order
RECURSIVE SortOrderFrom(_, _, _)
SortOrderFrom(n, i, lt) ==
  IF i > n THEN <<>>
  ELSE InsertStable(SortOrderFrom(n, i + 1, lt), i, lt)

\* sorting by a key of integer tuples, ascending
SortOrder(keys) ==
  SortOrderFrom(Len(keys), 1,
                {p \in (1..Len(keys)) \X (1..Len(keys)) : TupleLess(keys[p[1]], keys[p[2]])})

\* np.median, doubled: the middle value twice, or the sum of the two middle values
Median2(sizes) ==
  LET n == Len(sizes)
      ord == SortOrder([i \in 1..n |-> <<sizes[i]>>])
      srt == [i \in 1..n |-> sizes[ord[i]]]
  IN  IF n % 2 = 1 THEN 2 * srt[(n + 1) \div 2]
      ELSE srt[n \div 2] + srt[n \div 2 + 1]

\* ------------------------------------------------------ the parsed input
\* What the PDF parser hands over (page.get_text("dict")):
\*   span: [text, size, bold]   (bold: flags & 16)
\*   line: [spans, x0, x1, dy, bad]   dy: distance of the line's top from the
\*         top of the line before it (from the page top for the first line);
\*         bad: a span of the line makes the line's processing raise
\*   page: [height, lines, unreadable]   unreadable: get_text raises
\*   document: [corrupt, pages]   corrupt: fitz.open raises

Span(text, size, bold) == [text |-> text, size |-> size, bold |-> bold]

RawLine(spans, x0, x1, dy) ==
  [spans |-> spans, x0 |-> x0, x1 |-> x1, dy |-> dy, bad |-> FALSE]

Page(lines) == [height |-> 792, lines |-> lines, unreadable |-> FALSE]

Doc(pages) == [corrupt |-> FALSE, pages |-> pages]

SpanSizes(spans) == {spans[i].size : i \in 1..Len(spans)}

\* the bbox the parser reports for line i of a page: lines are laid out
\* downwards, each as tall as its largest span
RawBBox(page, i) ==
  LET y0 == SumSeq([j \in 1..i |-> page.lines[j].dy])
  IN  <<page.lines[i].x0, y0, page.lines[i].x1, y0 + MaxOf(SpanSizes(page.lines[i].spans))>>

\* "".join(span texts).strip()
RawText(raw) == Strip(Concat([i \in 1..Len(raw.spans) |-> raw.spans[i].text]))

\* an ingestion that drops empty lines only
RetainedNoise(raw) == RawText(raw) # <<>>

\* the line survives ingestion (the two continue statements)
Retained(raw) == RawText(raw) # <<>> /\ ~is_noise_content(RawText(raw))

\* the line_data dict; score, vertical_gap, size_ratio and level are the keys
\* the scorer and the level assigner add to it later (has_score, level # "")
LineData(page, i, page_num) ==
  LET raw == page.lines[i]
  IN  [text |-> normalize_text(RawText(raw)),
       size |-> MaxOf(SpanSizes(raw.spans)),
       is_bold |-> \E k \in 1..Len(raw.spans) : raw.spans[k].bold,
       bbox |-> RawBBox(page, i),
       page |-> page_num,
       spans |-> raw.spans,
       has_score |-> FALSE,
       score |-> 0,
       vertical_gap |-> 0,
       size_ratio |-> <<0, 1>>,
       level |-> ""]

\* The locals the page loop builds: all_lines, first_page_elements (indices
\* into all_lines: the same dict objects), font_sizes, bold_count.
EmptyParse ==
  [all_lines |-> <<>>, first_page_elements |-> <<>>, font_sizes |-> <<>>, bold_count |-> 0]

\* an ingestion that records the size of every span of the line
AppendLinePerSpan(st, line) ==
  [all_lines |-> Append(st.all_lines, line),
   first_page_elements |->
      IF line.page = 0 THEN Append(st.first_page_elements, Len(st.all_lines) + 1)
      ELSE st.first_page_elements,
   font_sizes |-> st.font_sizes \o [k \in 1..Len(line.spans) |-> line.spans[k].size],
   bold_count |-> st.bold_count + (IF line.is_bold THEN 1 ELSE 0)]

AppendLine(st, line) ==
  [all_lines |-> Append(st.all_lines, line),
   first_page_elements |->
      IF line.page = 0 THEN Append(st.first_page_elements, Len(st.all_lines) + 1)
      ELSE st.first_page_elements,
   font_sizes |-> Append(st.font_sizes, line.size),
   bold_count |-> st.bold_count + (IF line.is_bold THEN 1 ELSE 0)]

\* the block/line loop of one page from line i on; a bad line raises, the
\* except clause ends the page and what was appended before stays
RECURSIVE ParseLines(_, _, _, _)
ParseLines(st, page, page_num, i) ==
  IF i > Len(page.lines) THEN st
  ELSE LET raw == page.lines[i]
       IN  IF Len(raw.spans) = 0 THEN ParseLines(st, page, page_num, i + 1)
           ELSE IF raw.bad THEN st
           ELSE IF ~Retained(raw) THEN ParseLines(st, page, page_num, i + 1)
           ELSE ParseLines(AppendLine(st, LineData(page, i, page_num)), page, page_num, i + 1)

\* one iteration of the page loop, try and except included
ParsePageInto(st, page, page_num) ==
  IF page.unreadable THEN st ELSE ParseLines(st, page, page_num, 1)

\* the page raised: get_text did, or the processing of one of its lines
PageRaises(page) ==
  \/ page.unreadable
  \/ \E i \in 1..Len(page.lines) :
        /\ page.lines[i].bad
        /\ Len(page.lines[i].spans) > 0
        /\ \A j \in 1..(i - 1) : ~page.lines[j].bad \/ Len(page.lines[j].spans) = 0

\* ------------------------------------------------------- title extractor

\* the characters of the alphabet in code point order (str comparison)
CodeOrder ==
  <<"tab", " ", "!", "#", "(", ")", "*", ",", "-", ".", "/">> \o
  <<"0","1","2","3","4","5","6","7","8","9">> \o
  <<":", ";", "=", "?">> \o UpperLetters \o <<"^", "_", "backtick">> \o
  LowerLetters \o <<"~", Nbsp, DotlessI>> \o
  <<"tonos", "dialytika", "Iota_tonos", "iota_dialytika_tonos", "Iota", "Iota_dialytika",
    "iota_tonos", "iota", "iota_dialytika">>

Ord(c) == CHOOSE i \in 1..Len(CodeOrder) : CodeOrder[i] = c

\* Python orders tuples (score, text, size): score, then text by code points
\* (a proper prefix first), then size
TitleKeyLess(a, b) ==
  IF a.score # b.score THEN a.score < b.score
  ELSE IF a.text # b.text
       THEN TupleLess([i \in 1..Len(a.text) |-> Ord(a.text[i])],
                      [i \in 1..Len(b.text) |-> Ord(b.text[i])])
       ELSE a.size < b.size

\* the score of one of several largest title candidates (lines 424-460)
TitleScore(element, median2, page_height) ==
  LET text == normalize_text(element.text)
      size2 == 2 * element.size
      y_pos == element.bbox[2]
      wc == WordCount(text)
  IN  (IF size2 * 10 > 20 * median2 THEN 10
       ELSE IF size2 * 10 > 15 * median2 THEN 8
       ELSE IF size2 * 10 > 12 * median2 THEN 6 ELSE 0)
    + (IF y_pos * 100 < 18 * page_height THEN 4
       ELSE IF y_pos * 100 < 36 * page_height THEN 2 ELSE 0)
    + (IF element.is_bold THEN 3 ELSE 0)
    + (IF 1 <= wc /\ wc <= 3 THEN 4
       ELSE IF 4 <= wc /\ wc <= 6 THEN 2
       ELSE IF wc > 10 THEN -2 ELSE 0)
    + (IF IsUpperStr(text) THEN 2 ELSE 0)
    + (IF Abs(element.bbox[1] + element.bbox[3] - 612) < 200 THEN 2 ELSE 0)

\* the lines of the top 60% of the first page that may be the title
TitleCandidates(elements, page_height) ==
  LET ok(e) == /\ e.bbox[2] * 10 <= page_height * 6
               /\ is_valid_title(normalize_text(e.text))
               /\ ~(Head(normalize_text(e.text)) = "(" /\
                    EndsWithAny(normalize_text(e.text), {")"}))
  IN  SelectSeq(elements, ok)

\* a selection that keeps the title candidates of every size
LargestCandidatesAll(cands) == cands

LargestCandidates(cands) ==
  LET largest == MaxOf({cands[i].size : i \in 1..Len(cands)})
      big(e) == e.size >= largest - 1
  IN  SelectSeq(cands, big)

\* elements: the first page's line dicts; median2: twice the median handed in
extract_title(elements, median2, page_height) ==
  IF elements = <<>> THEN <<>>
  ELSE LET cands == TitleCandidates(elements, page_height)
       IN  IF cands = <<>> THEN <<>>
           ELSE LET big == LargestCandidates(cands)
                    scored == [i \in 1..Len(big) |->
                                 [score |-> TitleScore(big[i], median2, page_height),
                                  text |-> normalize_text(big[i].text),
                                  size |-> big[i].size]]
                    best == CHOOSE i \in 1..Len(big) :
                               \A j \in 1..Len(big) : ~TitleKeyLess(scored[i], scored[j])
                IN  IF Len(big) = 1 THEN capitalize_first_letter(big[1].text)
                    ELSE capitalize_first_letter(scored[best].text)

\* --------------------------------------------------------- table detector

\* round(x / 10) * 10 with Python's round-half-to-even
Round10(x) ==
  LET q == x \div 10
      r == x % 10
  IN  IF r < 5 THEN 10 * q
      ELSE IF r > 5 THEN 10 * (q + 1)
      ELSE IF q % 2 = 0 THEN 10 * q ELSE 10 * (q + 1)

DigitValue(c) == CHOOSE d \in 0..9 : <<"0","1","2","3","4","5","6","7","8","9">>[d + 1] = c

\* int() of a string of digits
RECURSIVE ParseInt(_)
ParseInt(ds) ==
  IF ds = <<>> THEN 0 ELSE 10 * ParseInt(SubSeq(ds, 1, Len(ds) - 1)) + DigitValue(ds[Len(ds)])

\* the Y of the first run n, n+1, n+2 in the numbers of one column
RunYs(numbers, ys) ==
  LET starts == {i \in 1..(Len(numbers) - 2) :
                   numbers[i + 1] = numbers[i] + 1 /\ numbers[i + 2] = numbers[i] + 2}
  IN  IF starts = {} THEN {}
      ELSE {ys[j] : j \in MinOf(starts)..(MinOf(starts) + 2)}

\* one x group of one page: at least three lines, sorted by Y, the lines
\* whose text is an integer with an optional dot
ColumnYs(x_lines) ==
  IF Len(x_lines) < 3 THEN {}
  ELSE LET ord == SortOrder([i \in 1..Len(x_lines) |-> <<x_lines[i].bbox[2]>>])
           srt == [i \in 1..Len(x_lines) |-> x_lines[ord[i]]]
           num(l) == FullMatch(<<Plus(Digits), Opt(".")>>, Strip(l.text))
           nums == SelectSeq(srt, num)
       IN  RunYs([i \in 1..Len(nums) |-> ParseInt(RStripChar(Strip(nums[i].text), "."))],
                 [i \in 1..Len(nums) |-> nums[i].bbox[2]])

detect_table_rows(all_lines) ==
  LET serial == {all_lines[i].bbox[2] : i \in {k \in 1..Len(all_lines) :
                                                 is_serial_number(all_lines[k].text)}}
      groups == {<<all_lines[i].page, Round10(all_lines[i].bbox[1])>> : i \in 1..Len(all_lines)}
      in(g, l) == l.page = g[1] /\ Round10(l.bbox[1]) = g[2]
      group(g) == LET member(l) == in(g, l) IN SelectSeq(all_lines, member)
  IN  serial \cup UNION {ColumnYs(group(g)) : g \in groups}

\* a check that finds no line in a table row
is_in_table_rowNever(text_bbox, table_y_coords) == FALSE

is_in_table_row(text_bbox, table_y_coords) ==
  \E ty \in table_y_coords : Abs(text_bbox[2] - ty) <= 8

\* ------------------------------------------------------------- scorer

\* baselines with the mean font size (doubled) in place of the median
BaselinesMean(font_sizes, bold_count, all_lines) ==
  [median2 |-> (2 * SumSeq(font_sizes)) \div Len(font_sizes),
   bold_num |-> bold_count, bold_den |-> Len(all_lines)]

\* the baselines of lines 545-546: twice the median, and bold_count / len
Baselines(font_sizes, bold_count, all_lines) ==
  [median2 |-> Median2(font_sizes), bold_num |-> bold_count, bold_den |-> Len(all_lines)]

\* a scorer that does not exclude the title line
IsTitleLineNever(line, title) == FALSE

\* the line is the title (lines 551-553)
IsTitleLine(line, title) ==
  title # <<>> /\ Lower(normalize_text(line.text)) = Lower(normalize_text(title))

VerticalGap(all_lines, i) ==
  IF i > 1 /\ all_lines[i - 1].page = all_lines[i].page
  THEN all_lines[i].bbox[2] - all_lines[i - 1].bbox[4]
  ELSE 0

\* re.match(r'^\d+[\.\)]\s', text)
NumberedMarker(text) == PrefixMatch(<<Plus(Digits), Item({".", ")"}, 1, 1), Item(Spaces, 1, 1)>>, text)

CapitalizedWords(words) == Cardinality({k \in 1..Len(words) : IsUpperChar(words[k][1])})

\* a score in which the three size and bold bonuses add up
ScoreAdditive(all_lines, i, b) ==
  LET line == all_lines[i]
      size2 == 2 * line.size
      words == Split(line.text)
  IN  (IF size2 * 100 > 130 * b.median2 THEN 4 ELSE 0)
    + (IF size2 * 100 > 115 * b.median2 /\ line.is_bold THEN 3 ELSE 0)
    + (IF line.is_bold /\ b.bold_num * 5 < b.bold_den THEN 3 ELSE 0)
    + (IF VerticalGap(all_lines, i) > 20 THEN 2 ELSE 0)
    + (IF NumberedMarker(line.text) THEN 3 ELSE 0)
    + (IF Len(words) <= 6 /\ line.is_bold THEN 2 ELSE 0)
    + (IF CapitalizedWords(words) * 10 > 7 * MaxOf({1, Len(words)}) THEN 2 ELSE 0)

\* the score of line i against the baselines b (lines 561-589)
Score(all_lines, i, b) ==
  LET line == all_lines[i]
      size2 == 2 * line.size
      words == Split(line.text)
  IN  (IF size2 * 100 > 130 * b.median2 THEN 4
       ELSE IF size2 * 100 > 115 * b.median2 /\ line.is_bold THEN 3
       ELSE IF line.is_bold /\ b.bold_num * 5 < b.bold_den THEN 3 ELSE 0)
    + (IF VerticalGap(all_lines, i) > 20 THEN 2 ELSE 0)
    + (IF NumberedMarker(line.text) THEN 3 ELSE 0)
    + (IF Len(words) <= 6 /\ line.is_bold THEN 2 ELSE 0)
    + (IF CapitalizedWords(words) * 10 > 7 * MaxOf({1, Len(words)}) THEN 2 ELSE 0)

\* a scorer that consults the table rows of the line's own page only
ScorableOwnPage(all_lines, i, title, table_y_coords) ==
  LET same(l) == l.page = all_lines[i].page
  IN  /\ ~IsTitleLine(all_lines[i], title)
      /\ is_valid_heading(all_lines[i].text)
      /\ ~is_in_table_row(all_lines[i].bbox, detect_table_rows(SelectSeq(all_lines, same)))

\* the line is scored at all (the three continue statements)
Scorable(all_lines, i, title, table_y_coords) ==
  /\ ~IsTitleLine(all_lines[i], title)
  /\ is_valid_heading(all_lines[i].text)
  /\ ~is_in_table_row(all_lines[i].bbox, table_y_coords)

\* a scorer that accepts a line from a score of 2
IsCandidateLow(all_lines, i, title, table_y_coords, b) ==
  Scorable(all_lines, i, title, table_y_coords) /\ Score(all_lines, i, b) >= 2

IsCandidate(all_lines, i, title, table_y_coords, b) ==
  Scorable(all_lines, i, title, table_y_coords) /\ Score(all_lines, i, b) >= 4

\* the indices of the candidates, in line order
ScoredCandidates(all_lines, title, table_y_coords, b) ==
  LET cand(i) == IsCandidate(all_lines, i, title, table_y_coords, b)
  IN  SelectSeq([i \in 1..Len(all_lines) |-> i], cand)

\* the scorer writes score, vertical_gap and size_ratio into the line dicts
MarkScored(all_lines, title, table_y_coords, b) ==
  [i \in 1..Len(all_lines) |->
     IF IsCandidate(all_lines, i, title, table_y_coords, b)
     THEN [all_lines[i] EXCEPT !.has_score = TRUE,
                               !.score = Score(all_lines, i, b),
                               !.vertical_gap = VerticalGap(all_lines, i),
                               !.size_ratio = <<2 * all_lines[i].size, b.median2>>]
     ELSE all_lines[i]]

\* ------------------------------------------------------------ refiner

has_consistent_formatting(spans) ==
  \/ Len(spans) <= 1
  \/ /\ MaxOf(SpanSizes(spans)) * 2 - MinOf(SpanSizes(spans)) * 2 <= 3
     /\ Cardinality({spans[i].bold : i \in 1..Len(spans)}) <= 1

\* candidates are indices into all_lines
filter_inconsistent_formatting(all_lines, candidates) ==
  LET ok(c) == has_consistent_formatting(all_lines[c].spans)
  IN  SelectSeq(candidates, ok)

\* the inner loop for the candidate at position i of the sorted list, from j:
\* the positions that are its horizontal neighbours
RECURSIVE HorizontalNeighbors(_, _, _, _)
HorizontalNeighbors(srt, i, j, skip) ==
  IF j > Len(srt) THEN {}
  ELSE IF j \in skip THEN HorizontalNeighbors(srt, i, j + 1, skip)
  ELSE IF srt[j].page # srt[i].page THEN {}
  ELSE IF Abs(srt[j].bbox[2] - srt[i].bbox[2]) <= 10
       THEN (IF srt[j].bbox[1] - srt[i].bbox[3] >= 50 THEN {j} ELSE {})
            \cup HorizontalNeighbors(srt, i, j + 1, skip)
       ELSE IF srt[j].bbox[2] > srt[i].bbox[2] + 10 THEN {}
       ELSE HorizontalNeighbors(srt, i, j + 1, skip)

\* the outer loop from position i: the positions appended to filtered
RECURSIVE HorizontalKeep(_, _, _)
HorizontalKeep(srt, i, skip) ==
  IF i > Len(srt) THEN <<>>
  ELSE IF i \in skip THEN HorizontalKeep(srt, i + 1, skip)
  ELSE LET nb == HorizontalNeighbors(srt, i, i + 1, skip)
       IN  IF nb # {} THEN HorizontalKeep(srt, i + 1, skip \cup nb)
           ELSE <<i>> \o HorizontalKeep(srt, i + 1, skip)

filter_horizontal_table_headers(all_lines, candidates) ==
  IF Len(candidates) < 2 THEN candidates
  ELSE LET ord == SortOrder([k \in 1..Len(candidates) |->
                               <<all_lines[candidates[k]].page,
                                 all_lines[candidates[k]].bbox[2],
                                 all_lines[candidates[k]].bbox[1]>>])
           sorted == [k \in 1..Len(candidates) |-> candidates[ord[k]]]
           srt == [k \in 1..Len(candidates) |-> all_lines[sorted[k]]]
           keep == HorizontalKeep(srt, 1, {})
       IN  [k \in 1..Len(keep) |-> sorted[keep[k]]]

\* the loop of lines 345-359 from line i on, having checked `checked` lines
RECURSIVE ParagraphFrom(_, _, _, _, _)
ParagraphFrom(all_lines, heading_idx, candidate_texts, i, checked) ==
  IF i > Len(all_lines) \/ checked >= 15 THEN FALSE
  ELSE IF all_lines[i].page > all_lines[heading_idx].page + 2 THEN FALSE
  ELSE IF all_lines[i].text \in candidate_texts
       THEN ParagraphFrom(all_lines, heading_idx, candidate_texts, i + 1, checked + 1)
  ELSE IF is_paragraph_content(all_lines[i].text) THEN TRUE
  ELSE ParagraphFrom(all_lines, heading_idx, candidate_texts, i + 1, checked + 1)

\* a check that finds no paragraph below any heading
has_paragraph_belowNever(heading_idx, all_lines, candidates) == FALSE

has_paragraph_below(heading_idx, all_lines, candidates) ==
  /\ heading_idx <= Len(all_lines)
  /\ ParagraphFrom(all_lines, heading_idx,
                   {all_lines[candidates[k]].text : k \in 1..Len(candidates)},
                   heading_idx + 1, 0)

\* an index that maps a text to the first line with that text
TextToIndexFirst(all_lines, text) == MinOf({i \in 1..Len(all_lines) : all_lines[i].text = text})

\* text_to_index[text]: the last line with that text
TextToIndex(all_lines, text) == MaxOf({i \in 1..Len(all_lines) : all_lines[i].text = text})

\* a filter that keeps every candidate
filter_headings_with_contentAll(all_lines, candidates) == candidates

filter_headings_with_content(all_lines, candidates) ==
  LET ok(c) == has_paragraph_below(TextToIndex(all_lines, all_lines[c].text), all_lines, candidates)
  IN  SelectSeq(candidates, ok)

\* lines 597-600
Refine(all_lines, candidates) ==
  IF candidates = <<>> THEN candidates
  ELSE filter_headings_with_content(all_lines,
         filter_horizontal_table_headers(all_lines,
           filter_inconsistent_formatting(all_lines, candidates)))

\* ------------------------------------------------------ level assigner

\* two clusters whatever the number of candidates
NClustersTwo(n) == 2

\* n_clusters of line 616
NClusters(n) == MinOf({3, MaxOf({2, n \div 2})})

\* AgglomerativeClustering(n_clusters=k).fit_predict on n samples returns a
\* label in 0..k-1 for each sample, every label used.  Lines 620-631 read the
\* labels only through the partition they induce and the order in which the
\* clusters first appear, so the labels are numbered in that order.
FitPredict(n, k) ==
  {lab \in [1..n -> 0..(k - 1)] :
     /\ \A c \in 0..(k - 1) : \E i \in 1..n : lab[i] = c
     /\ \A i \in 1..n : lab[i] = 0 \/ \E j \in 1..(i - 1) : lab[j] = lab[i] - 1}

\* the rows handed to StandardScaler and fit_predict (lines 606-614)
Features(all_lines, candidates) ==
  [k \in 1..Len(candidates) |->
     LET c == all_lines[candidates[k]]
     IN  <<c.size, IF c.is_bold THEN 1 ELSE 0, c.bbox[1], c.vertical_gap, Len(c.text), c.score>>]

\* a clustering that may label the same features differently each time
FitChoicesAny(memo, all_lines, candidates) ==
  IF Len(candidates) < 2 THEN {<<>>}
  ELSE FitPredict(Len(candidates), NClusters(Len(candidates)))

\* fit_predict is a function of its input: the labels it gave for these
\* features before, any labels when it sees them for the first time
FitChoices(memo, all_lines, candidates) ==
  IF Len(candidates) < 2 THEN {<<>>}
  ELSE IF Features(all_lines, candidates) \in DOMAIN memo
       THEN {memo[Features(all_lines, candidates)]}
       ELSE FitPredict(Len(candidates), NClusters(Len(candidates)))

\* cluster_sizes[label]: the font sizes of the cluster's candidates
ClusterSizes(all_lines, candidates, labels, c) ==
  LET mine(k) == labels[k] = c
      idx == SelectSeq([k \in 1..Len(candidates) |-> k], mine)
  IN  [k \in 1..Len(idx) |-> all_lines[candidates[idx[k]]].size]

\* the keys of cluster_sizes in insertion order: by first appearance
ClusterKeys(labels) ==
  LET first(k) == \A j \in 1..(k - 1) : labels[j] # labels[k]
      idx == SelectSeq([k \in 1..Len(labels) |-> k], first)
  IN  [k \in 1..Len(idx) |-> labels[idx[k]]]

\* the clusters sorted without reverse=True: smallest mean first
SortedClustersAscending(all_lines, candidates, labels) ==
  LET keys == ClusterKeys(labels)
      sz(a) == ClusterSizes(all_lines, candidates, labels, keys[a])
      less == {p \in (1..Len(keys)) \X (1..Len(keys)) :
                 SumSeq(sz(p[1])) * Len(sz(p[2])) < SumSeq(sz(p[2])) * Len(sz(p[1]))}
      ord == SortOrderFrom(Len(keys), 1, less)
  IN  [r \in 1..Len(keys) |-> keys[ord[r]]]

\* sorted(cluster_sizes.keys(), key=mean, reverse=True): by mean font size,
\* largest first, equal means in insertion order
SortedClusters(all_lines, candidates, labels) ==
  LET keys == ClusterKeys(labels)
      sz(a) == ClusterSizes(all_lines, candidates, labels, keys[a])
      greater == {p \in (1..Len(keys)) \X (1..Len(keys)) :
                    SumSeq(sz(p[1])) * Len(sz(p[2])) > SumSeq(sz(p[2])) * Len(sz(p[1]))}
      ord == SortOrderFrom(Len(keys), 1, greater)
  IN  [r \in 1..Len(keys) |-> keys[ord[r]]]

LevelName(r) == IF r = 1 THEN "H1" ELSE IF r = 2 THEN "H2" ELSE "H3"

\* level_map[cluster]
LevelOf(sorted_clusters, c) ==
  LevelName(CHOOSE r \in 1..Len(sorted_clusters) : sorted_clusters[r] = c)

\* the level each candidate gets (lines 605-636), by position in candidates
CandidateLevels(all_lines, candidates, labels) ==
  IF Len(candidates) >= 2
  THEN LET sc == SortedClusters(all_lines, candidates, labels)
       IN  [k \in 1..Len(candidates) |-> LevelOf(sc, labels[k])]
  ELSE [k \in 1..Len(candidates) |-> "H1"]

\* candidate['level'] = ...: written into the line dicts
MarkLevels(all_lines, candidates, levels) ==
  [i \in 1..Len(all_lines) |->
     IF \E k \in 1..Len(candidates) : candidates[k] = i
     THEN [all_lines[i] EXCEPT !.level =
             levels[CHOOSE k \in 1..Len(candidates) : candidates[k] = i]]
     ELSE all_lines[i]]

\* ---------------------------------------------------- outline assembler

\* a degraded result with a placeholder title
EmptyResultUntitled == [title |-> <<"U","n","t","i","t","l","e","d">>, outline |-> <<>>]

EmptyResult == [title |-> <<>>, outline |-> <<>>]

\* an outline with 1-based pages
BuildOutlineOneBased(all_lines, candidates) ==
  [k \in 1..Len(candidates) |->
     [level |-> IF all_lines[candidates[k]].level = "" THEN "H1"
                ELSE all_lines[candidates[k]].level,
      text |-> capitalize_first_letter(all_lines[candidates[k]].text),
      page |-> all_lines[candidates[k]].page + 1]]

\* lines 638-645
BuildOutline(all_lines, candidates) ==
  [k \in 1..Len(candidates) |->
     [level |-> IF all_lines[candidates[k]].level = "" THEN "H1"
                ELSE all_lines[candidates[k]].level,
      text |-> capitalize_first_letter(all_lines[candidates[k]].text),
      page |-> all_lines[candidates[k]].page]]

\* normalize_text(.).lower() of the candidates' texts and of the entries' (line 650)
MatchKeys(texts) == [k \in 1..Len(texts) |-> Lower(normalize_text(texts[k]))]

\* per entry the first candidate whose text matches, 0 when next(...) finds none
FirstMatches(all_lines, candidates, outline) ==
  LET ck == MatchKeys([k \in 1..Len(candidates) |-> all_lines[candidates[k]].text])
      ek == MatchKeys([k \in 1..Len(outline) |-> outline[k].text])
  IN  [k \in 1..Len(outline) |->
         IF \E j \in 1..Len(ck) : ck[j] = ek[k]
         THEN MinOf({j \in 1..Len(ck) : ck[j] = ek[k]})
         ELSE 0]

\* StopIteration out of the sort key: some entry matches no candidate
SortRaises(fm) == \E k \in 1..Len(fm) : fm[k] = 0

\* outline.sort by (page, Y of the first matching candidate) (lines 647-651)
\* a sort key that orders the pages downwards
SortKeysDescending(all_lines, candidates, outline, fm) ==
  [k \in 1..Len(outline) |-> <<0 - outline[k].page, all_lines[candidates[fm[k]]].bbox[2]>>]

SortKeys(all_lines, candidates, outline, fm) ==
  [k \in 1..Len(outline) |-> <<outline[k].page, all_lines[candidates[fm[k]]].bbox[2]>>]

\* (the sorted order is bound once, as the element of a one-element set)
SortOutline(all_lines, candidates, outline, fm) ==
  Only({[k \in 1..Len(outline) |-> outline[ord[k]]]
         : ord \in {SortOrder(SortKeys(all_lines, candidates, outline, fm))}})

\* lines 653-659: the first entry of each lowercased text
Dedup(outline) ==
  LET keys == [k \in 1..Len(outline) |-> Strip(Lower(outline[k].text))]
      first(k) == \A j \in 1..(k - 1) : keys[j] # keys[k]
      idx == SelectSeq([k \in 1..Len(outline) |-> k], first)
  IN  [k \in 1..Len(idx) |-> outline[idx[k]]]

\* ------------------------------------------------------------- inputs

LTitle == RawLine(<<Span(<<"P","r","o","j","e","c","t"," ","C","h","a","r","t","e","r">>, 24, TRUE)>>, 206, 406, 50)

LPara == RawLine(<<Span(<<"t","h","e"," ","p","l","a","n"," ","i","s"," ","s","e","t",".">>, 12, FALSE)>>, 72, 400, 40)

LIntro == RawLine(<<Span(<<"I","n","t","r","o">>, 18, TRUE)>>, 72, 150, 40)

LIntroCaps == RawLine(<<Span(<<"I","N","T","R","O">>, 14, TRUE)>>, 72, 150, 40)

LNumbered == RawLine(<<Span(<<"1","."," ","I","n","t","r","o","d","u","c","t","i","o","n">>, 14, TRUE)>>, 72, 200, 40)

\* a heading that starts with U+0131
LIsi == RawLine(<<Span(<<"dotless_i","s","dotless_i">>, 18, TRUE)>>, 72, 120, 40)

\* the same heading with a dotted i first: another text, also lowercased
LIdot == RawLine(<<Span(<<"i","s","dotless_i">>, 18, TRUE)>>, 72, 120, 40)

\* two headings that differ as strings, also lowercased, and are the same text
\* once capitalized, normalized and lowercased: U+0390 "ota" and
\* U+03AA U+0301 "ota"
LIotaLower == RawLine(<<Span(<<"iota_dialytika_tonos","o","t","a">>, 18, TRUE)>>, 72, 150, 40)

LIotaUpper == RawLine(<<Span(<<"Iota_dialytika","tonos","o","t","a">>, 18, TRUE)>>, 72, 150, 40)

\* raw text with a run of whitespace and a no-break space
LScope == RawLine(<<Span(<<"S","c","o","p","e","nbsp","tab"," ","a","n","d"," ","a","i","m","s">>, 14, TRUE)>>, 72, 220, 40)

LNoise == RawLine(<<Span(<<"P","a","g","e"," ","3">>, 30, TRUE)>>, 72, 140, 40)

LDigits == RawLine(<<Span(<<"1","2">>, 12, FALSE)>>, 72, 90, 40)

LSerial(d) == RawLine(<<Span(<<d, ".">>, 12, FALSE)>>, 72, 90, 30)

\* a table cell in the row of the line before it
LCell == RawLine(<<Span(<<"C","o","s","t">>, 14, TRUE)>>, 200, 260, 0)

\* two spans that differ in size and weight
LMixed == RawLine(<<Span(<<"B","i","g">>, 18, TRUE), Span(<<" ","d","a","t","a">>, 12, FALSE)>>, 72, 200, 40)

\* a heading side by side with the line before it
LSide == RawLine(<<Span(<<"C","o","s","t","s">>, 18, TRUE)>>, 300, 360, 0)

\* a line with a span whose text is no string: "".join raises
LBad == [RawLine(<<Span(<<"I","n","t","r","o">>, 18, TRUE)>>, 72, 150, 40) EXCEPT !.bad = TRUE]

PCover == Page(<<LTitle, LPara, LNumbered, LPara>>)

PIntro == Page(<<LIntro, LPara>>)

PNumbered == Page(<<LNumbered, LPara>>)

PCaps == Page(<<LIntroCaps, LPara>>)

PIsi == Page(<<LIsi, LPara>>)

PNoise == Page(<<LNoise, LDigits>>)

PEmpty == Page(<<>>)

PUnreadable == [Page(<<LIntro, LPara>>) EXCEPT !.unreadable = TRUE]

PBadMid == Page(<<LIntro, LPara, LBad, LNumbered, LPara>>)

PTable == Page(<<LSerial("1"), LCell, LSerial("2"), LCell, LSerial("3"), LCell>>)

PMixed == Page(<<LMixed, LPara>>)

PSide == Page(<<LIntro, LSide, LPara>>)

PHeadOnly == Page(<<LIntro>>)

PScope == Page(<<LScope, LPara>>)

PIota == Page(<<LIotaLower, LPara>>)

PGreek == Page(<<LTitle, LPara, LIotaLower, LPara, LIotaUpper, LPara>>)

PIdot == Page(<<LIdot, LPara>>)

\* the first page of a document of sections
PFront == Page(<<LTitle, LPara>>)

\* "Page 3 of 10", large and bold
LPageOf == RawLine(<<Span(<<"P","a","g","e"," ","3"," ","o","f"," ","1","0">>, 30, TRUE)>>, 72, 200, 40)

\* two bare URLs, large and bold
LHttp == RawLine(<<Span(<<"h","t","t","p",":","/","/","a",".","i","o">>, 18, TRUE)>>, 72, 200, 40)

LFtp == RawLine(<<Span(<<"f","t","p",":","/","/","a",".","i","o">>, 18, TRUE)>>, 72, 200, 40)

\* a title, a page footer and two URLs
PLinks == Page(<<LTitle, LPara, LPageOf, LHttp, LFtp, LPara>>)

\* paragraph lines of 5 and of 16 lowercase words
LPara5 == RawLine(<<Span(<<"t","h","e"," ","p","l","a","n"," ","i","s"," ","n","o","w"," ","s","e","t",".">>, 12, FALSE)>>, 72, 400, 40)

LPara16 ==
  RawLine(<<Span(<<"w","e"," ","g","o"," ","o","n"," ","a","s"," ","w","e"," ","d","o"," ",
                   "i","t"," ","s","o"," ","w","e"," ","g","o"," ","o","n"," ","a","s"," ",
                   "w","e"," ","d","o"," ","i","t"," ","n","o","w",".">>, 12, FALSE)>>, 72, 540, 40)

\* the title, a paragraph line, the numbered heading, a paragraph line
CharterPages ==
  {Page(<<LTitle, p1, LNumbered, p2>>) : p1 \in {LPara5, LPara16}, p2 \in {LPara, LPara5}}

\* large bold cells on a line of their own between two rows
LCellLow == RawLine(<<Span(<<"T","o","t","a","l">>, 18, TRUE)>>, 200, 270, 14)

LCellSum == RawLine(<<Span(<<"N","e","t"," ","S","u","m">>, 18, TRUE)>>, 200, 270, 14)

\* a table with two cells that are in no row: more than 8 points from every
\* serial number
PTableTall ==
  Page(<<LSerial("1"), LCell, LCellLow, LSerial("2"), LCell, LCellSum, LSerial("3"), LCell>>)

\* a second line like LIntro, with a text that sorts after it
LPlan == RawLine(<<Span(<<"P","l","a","n">>, 18, TRUE)>>, 72, 150, 40)

\* two lines of the largest size that score the same as titles
PTwoTitles == Page(<<LIntro, LPlan, LPara>>)

\* a heading 8 points below the Y of the first row of PTable, a paragraph,
\* and a heading away from every row
PAfterTable == Page(<<[LIntro EXCEPT !.dy = 38], LPara, LPlan, LPara>>)

\* a plain line of five words, larger than the headings
LReport ==
  RawLine(<<Span(<<"A","n","n","u","a","l"," ","r","e","p","o","r","t"," ","o","f"," ",
                   "o","u","r"," ","g","r","o","u","p">>, 16, FALSE)>>, 72, 330, 40)

\* a short bold upper-case heading at the top and the largest line below it
PLateTitle == Page(<<LIntroCaps, LPara, LReport, LPara>>)

\* a title, a numbered list of three rows with a cell each, and a heading
\* further down the page
PTableHead ==
  Page(<<LTitle, LPara, LSerial("1"), LCell, LSerial("2"), LCell, LSerial("3"), LCell,
         LIntro, LPara>>)

PageCatalogue ==
  {PCover, PIntro, PNumbered, PCaps, PIsi, PNoise, PEmpty, PUnreadable, PBadMid,
   PTable, PMixed, PSide, PHeadOnly, PScope, PIota, PGreek}

\* the pages of a document of sections: a heading and a paragraph each
SectionPages == {PIntro, PNumbered}

MaxPages == 2

MaxSections == 6

MaxFiles == 2

SeqsUpTo(S, lo, hi) == UNION {[1..k -> S] : k \in lo..hi}

CorruptDoc == [corrupt |-> TRUE, pages |-> <<>>]

\* documents of one page each
ScenarioPages == {PTableHead, PLinks, PTableTall, PTwoTitles, PLateTitle} \cup CharterPages

\* a heading with a paragraph, and the same heading again at the end of the
\* document with nothing below it
DocRepeatedHeading == Doc(<<PFront, PIntro, PHeadOnly>>)

\* a heading on page 1 and twice another heading, on pages 2 and 3, that
\* differs from it in the first letter: U+0131 against i
DocDotlessHeading == Doc(<<PFront, PIsi, PIdot, PIdot>>)

\* a table on page 0 and headings on page 1, which has no serial number
DocTableThenHeadings == Doc(<<PTable, PAfterTable>>)

\* the heading INTRO at 14pt on page 1 and Intro at 18pt on page 2
DocSameHeadingTwoSizes == Doc(<<PFront, PCaps, PIntro>>)

ScenarioDocs ==
  {Doc(<<p>>) : p \in ScenarioPages}
  \cup {DocRepeatedHeading, DocDotlessHeading, DocTableThenHeadings, DocSameHeadingTwoSizes}

Docs ==
  {Doc(ps) : ps \in SeqsUpTo(PageCatalogue, 0, MaxPages)}
  \cup {Doc(<<PFront>> \o ps) : ps \in SeqsUpTo(SectionPages, 3, MaxSections)}
  \cup ScenarioDocs
  \cup {CorruptDoc}

\* the documents of the directories of several files
BatchDocs == {CorruptDoc, Doc(<<PCover>>), Doc(<<PNoise>>)}

\* Path(PDF_DIR).glob("*.pdf"): the documents of the directory, in glob order
Dirs == {<<d>> : d \in Docs} \cup SeqsUpTo(BatchDocs, 0, MaxFiles)

\* ---------------------------------------------------------- the state

VARIABLES
  dir,                  \* the PDF files of PDF_DIR in glob order, as documents
  file_idx,             \* process_all: the file of the current iteration (0: none yet)
  attempts,             \* per file: the calls of extract_pdf_outline made for it
  outputs,              \* per file: the result written to its JSON file, <<>> when none
  pc,                   \* where process_all / extract_pdf_outline stands
  page_num,             \* pages the page loop has been through
  skipped,              \* the page numbers whose parsing raised
  all_lines,            \* the line dicts
  first_page_elements,  \* the line dicts of page 0, as indices into all_lines
  font_sizes,
  bold_count,
  page_height,
  title,
  title_median2,        \* twice the median handed to extract_title
  table_y_coords,
  base,                 \* median_size (doubled) and bold_frequency of lines 545-546
  candidates,           \* the candidate dicts, as indices into all_lines
  labels,               \* the clustering's labels, <<>> when none was run
  result,               \* what extract_pdf_outline returned, <<>> before it does
  fault,                \* the stage an exception left the pipeline from, or "none"
  workers,              \* workers that own one file each: the locals of each one's call
  fit_memo              \* what fit_predict returned for each feature matrix it was given

batch_vars == <<dir, file_idx, attempts, outputs>>

parse_vars == <<page_num, skipped, all_lines, first_page_elements, font_sizes, bold_count, page_height>>

stage_vars == <<title, title_median2, table_y_coords, base, candidates, labels>>

worker_vars == <<workers, fit_memo>>

vars == <<batch_vars, pc, parse_vars, stage_vars, result, fault, worker_vars>>

NoBase == [median2 |-> 0, bold_num |-> 0, bold_den |-> 0]

\* the document of the current file
CurDoc == dir[file_idx]

Init ==
  /\ dir \in Dirs
  /\ file_idx = 0
  /\ attempts = [f \in 1..Len(dir) |-> 0]
  /\ outputs = [f \in 1..Len(dir) |-> <<>>]
  /\ pc = "glob"
  /\ page_num = 0
  /\ skipped = {}
  /\ all_lines = <<>>
  /\ first_page_elements = <<>>
  /\ font_sizes = <<>>
  /\ bold_count = 0
  /\ page_height = 792
  /\ title = <<>>
  /\ title_median2 = 0
  /\ table_y_coords = {}
  /\ base = NoBase
  /\ candidates = <<>>
  /\ labels = <<>>
  /\ result = <<>>
  /\ fault = "none"
  /\ workers = <<>>
  /\ fit_memo = <<>>

\* a handler that keeps the title computed before the exception
HandleExceptionKeepsTitle == [title |-> title, outline |-> <<>>]

\* the exception handler of lines 663-664
HandleException == EmptyResult

\* return from extract_pdf_outline with r; f: the stage an exception came from
Return(r, f) ==
  /\ result' = r
  /\ fault' = f
  /\ pc' = "returned"

\* ------------------------------------------------------- process_all

\* the for loop takes the next file and calls extract_pdf_outline on it
NextFile ==
  /\ pc = "glob"
  /\ file_idx < Len(dir)
  /\ file_idx' = file_idx + 1
  /\ attempts' = [attempts EXCEPT ![file_idx + 1] = @ + 1]
  /\ pc' = "open"
  /\ result' = <<>>
  /\ fault' = "none"
  /\ UNCHANGED <<dir, outputs, parse_vars, stage_vars>>
  /\ UNCHANGED worker_vars

\* the call has returned: its locals are gone
DropLocals ==
  /\ page_num' = 0
  /\ skipped' = {}
  /\ all_lines' = <<>>
  /\ first_page_elements' = <<>>
  /\ font_sizes' = <<>>
  /\ bold_count' = 0
  /\ page_height' = 792
  /\ title' = <<>>
  /\ title_median2' = 0
  /\ table_y_coords' = {}
  /\ base' = NoBase
  /\ candidates' = <<>>
  /\ labels' = <<>>

\* json.dump of the result to the file's output path
WriteOutput ==
  /\ pc = "returned"
  /\ outputs' = [outputs EXCEPT ![file_idx] = result]
  /\ pc' = "glob"
  /\ DropLocals
  /\ UNCHANGED <<dir, file_idx, attempts, result, fault>>
  /\ UNCHANGED worker_vars

\* a driver without the per-file except clause: the failure ends process_all
WriteFailsHalts ==
  /\ pc = "returned"
  /\ pc' = "exit"
  /\ DropLocals
  /\ UNCHANGED <<batch_vars, result, fault>>
  /\ UNCHANGED worker_vars

\* open() or json.dump raises: except Exception: continue
WriteFails ==
  /\ pc = "returned"
  /\ pc' = "glob"
  /\ DropLocals
  /\ UNCHANGED <<batch_vars, result, fault>>
  /\ UNCHANGED worker_vars

\* the glob is exhausted: process_all returns
Exit ==
  /\ pc = "glob"
  /\ file_idx = Len(dir)
  /\ pc' = "exit"
  /\ UNCHANGED <<batch_vars, parse_vars, stage_vars, result, fault>>
  /\ UNCHANGED worker_vars

\* ----------------------------------------------- extract_pdf_outline

\* fitz.open and the locals of lines 476-480
Open ==
  /\ pc = "open"
  /\ page_num' = 0
  /\ skipped' = {}
  /\ all_lines' = <<>>
  /\ first_page_elements' = <<>>
  /\ font_sizes' = <<>>
  /\ bold_count' = 0
  /\ page_height' = 792
  /\ title' = <<>>
  /\ title_median2' = 0
  /\ table_y_coords' = {}
  /\ base' = NoBase
  /\ candidates' = <<>>
  /\ labels' = <<>>
  /\ IF CurDoc.corrupt
     THEN Return(HandleException, "open")
     ELSE pc' = "parse" /\ UNCHANGED <<result, fault>>
  /\ UNCHANGED batch_vars
  /\ UNCHANGED worker_vars

\* one iteration of the page loop
ParsePage ==
  /\ pc = "parse"
  /\ page_num < Len(CurDoc.pages)
  /\ LET page == CurDoc.pages[page_num + 1]
         st == ParsePageInto([all_lines |-> all_lines,
                              first_page_elements |-> first_page_elements,
                              font_sizes |-> font_sizes,
                              bold_count |-> bold_count], page, page_num)
     IN  /\ page_height' = IF page_num = 0 THEN page.height ELSE page_height
         /\ all_lines' = st.all_lines
         /\ first_page_elements' = st.first_page_elements
         /\ font_sizes' = st.font_sizes
         /\ bold_count' = st.bold_count
         /\ skipped' = IF PageRaises(page) THEN skipped \cup {page_num} ELSE skipped
  /\ page_num' = page_num + 1
  /\ UNCHANGED <<batch_vars, pc, stage_vars, result, fault>>
  /\ UNCHANGED worker_vars

\* doc.close() and the check for no lines (lines 531-534)
CloseDoc ==
  /\ pc = "parse"
  /\ page_num = Len(CurDoc.pages)
  /\ IF all_lines = <<>>
     THEN Return(EmptyResult, "none")
     ELSE pc' = "title" /\ UNCHANGED <<result, fault>>
  /\ UNCHANGED <<batch_vars, parse_vars, stage_vars>>
  /\ UNCHANGED worker_vars

\* lines 536-538
ExtractTitle ==
  /\ pc = "title"
  /\ title_median2' = IF font_sizes # <<>> THEN Median2(font_sizes) ELSE 24
  /\ title' = extract_title([k \in 1..Len(first_page_elements) |-> all_lines[first_page_elements[k]]],
                            IF font_sizes # <<>> THEN Median2(font_sizes) ELSE 24,
                            page_height)
  /\ pc' = "tables"
  /\ UNCHANGED <<batch_vars, parse_vars, table_y_coords, base, candidates, labels, result, fault>>
  /\ UNCHANGED worker_vars

\* lines 540-546: the table rows, then the baselines
DetectTables ==
  /\ pc = "tables"
  /\ table_y_coords' = detect_table_rows(all_lines)
  /\ IF font_sizes = <<>>
     THEN Return([title |-> title, outline |-> <<>>], "none") /\ UNCHANGED base
     ELSE /\ base' = Baselines(font_sizes, bold_count, all_lines)
          /\ pc' = "score"
          /\ UNCHANGED <<result, fault>>
  /\ UNCHANGED <<batch_vars, parse_vars, title, title_median2, candidates, labels>>
  /\ UNCHANGED worker_vars

\* the scoring loop (lines 548-595)
ScoreLines ==
  /\ pc = "score"
  /\ candidates' = ScoredCandidates(all_lines, title, table_y_coords, base)
  /\ all_lines' = MarkScored(all_lines, title, table_y_coords, base)
  /\ pc' = "refine"
  /\ UNCHANGED <<batch_vars, page_num, skipped, first_page_elements, font_sizes, bold_count,
                 page_height, title, title_median2, table_y_coords, base, labels, result, fault>>
  /\ UNCHANGED worker_vars

\* the three filters and the return on no candidates (lines 597-603)
RefineCandidates ==
  /\ pc = "refine"
  /\ candidates' = Refine(all_lines, candidates)
  /\ IF Refine(all_lines, candidates) = <<>>
     THEN Return([title |-> title, outline |-> <<>>], "none")
     ELSE pc' = "levels" /\ UNCHANGED <<result, fault>>
  /\ UNCHANGED <<batch_vars, parse_vars, title, title_median2, table_y_coords, base, labels>>
  /\ UNCHANGED worker_vars

\* clustering and level assignment (lines 605-636)
AssignLevels ==
  /\ pc = "levels"
  /\ \E lab \in (IF Len(candidates) >= 2
                 THEN FitPredict(Len(candidates), NClusters(Len(candidates)))
                 ELSE {<<>>}) :
        /\ labels' = lab
        /\ all_lines' = MarkLevels(all_lines, candidates,
                                   CandidateLevels(all_lines, candidates, lab))
  /\ pc' = "assemble"
  /\ UNCHANGED <<batch_vars, page_num, skipped, first_page_elements, font_sizes, bold_count,
                 page_height, title, title_median2, table_y_coords, base, candidates,
                 result, fault>>
  /\ UNCHANGED worker_vars

\* the outline, its sort and its deduplication (lines 638-661)
Assemble ==
  /\ pc = "assemble"
  /\ \E outline \in {BuildOutline(all_lines, candidates)} :
        \E fm \in {FirstMatches(all_lines, candidates, outline)} :
           IF SortRaises(fm)
           THEN Return(HandleException, "assemble")
           ELSE Return([title |-> title,
                        outline |-> Dedup(SortOutline(all_lines, candidates, outline, fm))],
                       "none")
  /\ UNCHANGED <<batch_vars, parse_vars, stage_vars>>
  /\ UNCHANGED worker_vars

\* the stages of the outer try block after fitz.open
Stages == {"parse", "title", "tables", "score", "refine", "levels", "assemble"}

\* any other exception inside the outer try block (a page that cannot be
\* loaded by the page iterator, a library error, MemoryError)
Raise ==
  /\ pc \in Stages
  /\ Return(HandleException, pc)
  /\ UNCHANGED <<batch_vars, parse_vars, stage_vars>>
  /\ UNCHANGED worker_vars

Next ==
  \/ NextFile
  \/ WriteOutput
  \/ WriteFails
  \/ Exit
  \/ Raise
  \/ Open
  \/ ParsePage
  \/ CloseDoc
  \/ ExtractTitle
  \/ DetectTables
  \/ ScoreLines
  \/ RefineCandidates
  \/ AssignLevels
  \/ Assemble

Spec == Init /\ [][Next]_vars

\* process_all runs to its end: a step that can be taken is taken
FairSpec == Spec /\ WF_vars(Next)

\* ------------------------------------------------------------ workers
\* process_all fanned out: one worker per file of the directory, each calls
\* extract_pdf_outline on its own file and writes the file's own output path.
\* The steps of the workers interleave.

\* the locals of a call that has just been entered
NewFrame ==
  [pc |-> "open", page_num |-> 0, all_lines |-> <<>>, first_page_elements |-> <<>>,
   font_sizes |-> <<>>, bold_count |-> 0, page_height |-> 792, title |-> <<>>,
   title_median2 |-> 0, table_y_coords |-> {}, base |-> NoBase, candidates |-> <<>>,
   labels |-> <<>>, result |-> <<>>]

\* font_sizes as one list at module level, which every call reads
FrameSharedSizes(ws, k) == [ws[k] EXCEPT !.font_sizes = ws[1].font_sizes]

\* the names of a call resolve to the locals of that call
Frame(ws, k) == ws[k]

FrameReturn(l, r) == [l EXCEPT !.pc = "returned", !.result = r]

\* one stage of extract_pdf_outline on the locals l of a call for doc; lab:
\* the labels fit_predict returns in the level stage
StageStep(l, doc, lab) ==
  CASE l.pc = "open" ->
         IF doc.corrupt THEN FrameReturn(l, HandleException) ELSE [l EXCEPT !.pc = "parse"]
    [] l.pc = "parse" /\ l.page_num < Len(doc.pages) ->
         LET page == doc.pages[l.page_num + 1]
             st == ParsePageInto([all_lines |-> l.all_lines,
                                  first_page_elements |-> l.first_page_elements,
                                  font_sizes |-> l.font_sizes,
                                  bold_count |-> l.bold_count], page, l.page_num)
         IN  [l EXCEPT !.page_height = IF l.page_num = 0 THEN page.height ELSE @,
                       !.all_lines = st.all_lines,
                       !.first_page_elements = st.first_page_elements,
                       !.font_sizes = st.font_sizes,
                       !.bold_count = st.bold_count,
                       !.page_num = @ + 1]
    [] l.pc = "parse" /\ l.page_num = Len(doc.pages) ->
         IF l.all_lines = <<>> THEN FrameReturn(l, EmptyResult) ELSE [l EXCEPT !.pc = "title"]
    [] l.pc = "title" ->
         LET m2 == IF l.font_sizes # <<>> THEN Median2(l.font_sizes) ELSE 24
         IN  [l EXCEPT !.title_median2 = m2,
                       !.title = extract_title([k \in 1..Len(l.first_page_elements) |->
                                                  l.all_lines[l.first_page_elements[k]]],
                                               m2, l.page_height),
                       !.pc = "tables"]
    [] l.pc = "tables" ->
         IF l.font_sizes = <<>>
         THEN FrameReturn([l EXCEPT !.table_y_coords = detect_table_rows(l.all_lines)],
                          [title |-> l.title, outline |-> <<>>])
         ELSE [l EXCEPT !.table_y_coords = detect_table_rows(l.all_lines),
                        !.base = Baselines(l.font_sizes, l.bold_count, l.all_lines),
                        !.pc = "score"]
    [] l.pc = "score" ->
         [l EXCEPT !.candidates = ScoredCandidates(l.all_lines, l.title, l.table_y_coords, l.base),
                   !.all_lines = MarkScored(l.all_lines, l.title, l.table_y_coords, l.base),
                   !.pc = "refine"]
    [] l.pc = "refine" ->
         LET kept == Refine(l.all_lines, l.candidates)
         IN  IF kept = <<>>
             THEN FrameReturn([l EXCEPT !.candidates = kept], [title |-> l.title, outline |-> <<>>])
             ELSE [l EXCEPT !.candidates = kept, !.pc = "levels"]
    [] l.pc = "levels" ->
         [l EXCEPT !.labels = lab,
                   !.all_lines = MarkLevels(l.all_lines, l.candidates,
                                            CandidateLevels(l.all_lines, l.candidates, lab)),
                   !.pc = "assemble"]
    [] l.pc = "assemble" ->
         LET outline == BuildOutline(l.all_lines, l.candidates)
             fm == FirstMatches(l.all_lines, l.candidates, outline)
         IN  IF SortRaises(fm) THEN FrameReturn(l, HandleException)
             ELSE FrameReturn(l, [title |-> l.title,
                                  outline |-> Dedup(SortOutline(l.all_lines, l.candidates,
                                                                outline, fm))])
    [] OTHER -> l

\* extract_pdf_outline(doc) run from entry to return with nothing else running
RECURSIVE RunFrom(_, _, _)
RunFrom(l, doc, memo) ==
  IF l.pc = "returned" THEN l.result
  ELSE Only({RunFrom(nxt, doc, memo) :
               nxt \in {StageStep(l, doc, IF l.pc = "levels"
                                          THEN Only(FitChoices(memo, l.all_lines, l.candidates))
                                          ELSE <<>>)}})

Alone(doc, memo) == RunFrom(NewFrame, doc, memo)

\* the documents the workers are given
WorkerDocs ==
  {Doc(<<PCover>>), Doc(<<PNoise>>), Doc(<<PIntro, PNumbered>>),
   Doc(<<PFront, PIntro, PNumbered, PCaps>>), CorruptDoc}

MaxWorkers == 2

WorkerInit ==
  /\ dir \in [1..MaxWorkers -> WorkerDocs]
  /\ file_idx = 0
  /\ attempts = [f \in 1..MaxWorkers |-> 1]
  /\ outputs = [f \in 1..MaxWorkers |-> <<>>]
  /\ pc = "workers"
  /\ page_num = 0
  /\ skipped = {}
  /\ all_lines = <<>>
  /\ first_page_elements = <<>>
  /\ font_sizes = <<>>
  /\ bold_count = 0
  /\ page_height = 792
  /\ title = <<>>
  /\ title_median2 = 0
  /\ table_y_coords = {}
  /\ base = NoBase
  /\ candidates = <<>>
  /\ labels = <<>>
  /\ result = <<>>
  /\ fault = "none"
  /\ workers = [k \in 1..MaxWorkers |-> NewFrame]
  /\ fit_memo = <<>>

sequential_vars == <<file_idx, attempts, pc, parse_vars, stage_vars, result, fault>>

\* worker k runs one stage of its call other than the clustering
WorkerStage(k) ==
  /\ Frame(workers, k).pc \in {"open", "parse", "title", "tables", "score", "refine", "assemble"}
  /\ \E nxt \in {StageStep(Frame(workers, k), dir[k], <<>>)} :
        /\ nxt # workers[k]
        /\ workers' = [workers EXCEPT ![k] = nxt]
  /\ UNCHANGED <<dir, outputs, fit_memo, sequential_vars>>

\* worker k runs the level stage: the clustering and the level assignment
WorkerLevels(k) ==
  /\ Frame(workers, k).pc = "levels"
  /\ \E lab \in FitChoices(fit_memo, Frame(workers, k).all_lines, Frame(workers, k).candidates) :
        /\ workers' = [workers EXCEPT ![k] = StageStep(Frame(workers, k), dir[k], lab)]
        /\ fit_memo' =
             IF Len(workers[k].candidates) < 2 THEN fit_memo
             ELSE LET x == Features(Frame(workers, k).all_lines, Frame(workers, k).candidates)
                  IN  [f \in DOMAIN fit_memo \cup {x} |-> IF f = x THEN lab ELSE fit_memo[f]]
  /\ UNCHANGED <<dir, outputs, sequential_vars>>

\* worker k writes the result of its call to the output path of its file
WorkerWrite(k) ==
  /\ workers[k].pc = "returned"
  /\ outputs' = [outputs EXCEPT ![k] = workers[k].result]
  /\ workers' = [workers EXCEPT ![k].pc = "written"]
  /\ UNCHANGED <<dir, fit_memo, sequential_vars>>

WorkerNext == \E k \in 1..MaxWorkers : WorkerStage(k) \/ WorkerLevels(k) \/ WorkerWrite(k)

WorkerSpec == WorkerInit /\ [][WorkerNext]_vars

\* -------------------------------------------------------------- claims

\* C1: a call that an exception left (from fitz.open or from any stage of the
\* outer try block) returns exactly {"title": "", "outline": []}, whatever had
\* been computed before the exception.
C1_FaultReturnsEmptyResult ==
  (pc = "returned" /\ fault # "none") => result = [title |-> <<>>, outline |-> <<>>]

\* an exception after the title was found and candidates were kept
C1_Witness ==
  /\ pc = "returned"
  /\ fault = "assemble"
  /\ title # <<>>
  /\ candidates # <<>>
  /\ result = [title |-> <<>>, outline |-> <<>>]

\* the locals of the page loop after the first n pages, had every page that
\* raised contributed nothing
RECURSIVE ParseSkipping(_, _)
ParseSkipping(doc, n) ==
  IF n = 0 THEN EmptyParse
  ELSE IF PageRaises(doc.pages[n]) THEN ParseSkipping(doc, n - 1)
  ELSE ParsePageInto(ParseSkipping(doc, n - 1), doc.pages[n], n - 1)

\* C2: a page whose parsing raises is skipped as a whole: the line set, the
\* font sizes, the bold count and the first-page elements hold the lines of
\* the other pages and none of the faulting page.
C2_FaultingPageSkippedWhole ==
  pc = "parse" =>
    /\ all_lines = ParseSkipping(CurDoc, page_num).all_lines
    /\ font_sizes = ParseSkipping(CurDoc, page_num).font_sizes
    /\ bold_count = ParseSkipping(CurDoc, page_num).bold_count
    /\ first_page_elements = ParseSkipping(CurDoc, page_num).first_page_elements

\* C3: process_all attempts the extraction of every file of the directory
\* exactly once, whatever happened to the files before it: no file is
\* attempted twice, and the batch ends with every file attempted.
C3_EveryFileAttemptedOnce ==
  /\ [](\A f \in 1..Len(dir) : attempts[f] <= 1)
  /\ <>(pc = "exit" /\ \A f \in 1..Len(dir) : attempts[f] = 1)

\* the batch is over, the first file's extraction failed, no output was
\* written for it, and the second file was processed
C3_Witness ==
  /\ pc = "exit"
  /\ Len(dir) = 2
  /\ dir[1].corrupt
  /\ outputs[1] = <<>>
  /\ attempts = <<1, 1>>
  /\ outputs[2] # <<>>

\* C4: no entry of a returned outline equals a non-empty returned title
\* under normalize_text and lowercasing.
C4_TitleIsNoHeading ==
  (pc = "returned" /\ result.title # <<>>) =>
    \A k \in 1..Len(result.outline) :
       Lower(normalize_text(result.outline[k].text)) # Lower(normalize_text(result.title))

\* a result with a title and headings, from a document that holds the title line
C4_Witness ==
  /\ pc = "returned"
  /\ result.title # <<>>
  /\ result.outline # <<>>
  /\ \E i \in 1..Len(all_lines) :
        Lower(normalize_text(all_lines[i].text)) = Lower(normalize_text(result.title))

\* C5: the lowercased normalized texts of two distinct entries of a returned
\* outline differ.
C5_OutlineDeduplicated ==
  pc = "returned" =>
    \A j, k \in 1..Len(result.outline) :
       j # k => Lower(normalize_text(result.outline[j].text))
                  # Lower(normalize_text(result.outline[k].text))

\* C6: the pages of consecutive entries of a returned outline do not decrease.
C6_OutlinePageOrdered ==
  pc = "returned" =>
    \A k \in 1..(Len(result.outline) - 1) :
       result.outline[k].page <= result.outline[k + 1].page

\* an outline over two pages from which the deduplication removed an entry
C6_Witness ==
  /\ pc = "returned"
  /\ Len(result.outline) >= 2
  /\ Len(result.outline) < Len(candidates)
  /\ result.outline[1].page < result.outline[Len(result.outline)].page

\* C7: the level of every entry of a returned outline is H1, H2 or H3, its
\* text is capitalize_first_letter of the normalized text of a line of the
\* document, and its page is the 0-based index of the page of that line.
C7_EntriesValidAndTraceable ==
  pc = "returned" =>
    \A k \in 1..Len(result.outline) :
       /\ result.outline[k].level \in {"H1", "H2", "H3"}
       /\ \E p \in 1..Len(CurDoc.pages) :
             \E i \in 1..Len(CurDoc.pages[p].lines) :
                /\ Len(CurDoc.pages[p].lines[i].spans) > 0
                /\ result.outline[k].text =
                     capitalize_first_letter(normalize_text(RawText(CurDoc.pages[p].lines[i])))
                /\ result.outline[k].page = p - 1

\* an outline with an entry below H1 on a later page and an entry whose text
\* is not the raw text of its line
C7_Witness ==
  /\ pc = "returned"
  /\ \E k \in 1..Len(result.outline) :
        result.outline[k].page >= 1 /\ result.outline[k].level # "H1"
  /\ \E k \in 1..Len(result.outline) :
        \A p \in 1..Len(CurDoc.pages) :
           \A i \in 1..Len(CurDoc.pages[p].lines) :
              result.outline[k].text # RawText(CurDoc.pages[p].lines[i])

\* C8: a call that retained no line returns exactly {"title": "", "outline": []}.
C8_NoLinesEmptyResult ==
  (pc = "returned" /\ all_lines = <<>>) => result = [title |-> <<>>, outline |-> <<>>]

\* every page was read, the document has lines, and all were rejected at ingestion
C8_Witness ==
  /\ pc = "returned"
  /\ fault = "none"
  /\ all_lines = <<>>
  /\ page_num = Len(CurDoc.pages)
  /\ \E p \in 1..Len(CurDoc.pages) :
        ~PageRaises(CurDoc.pages[p]) /\ CurDoc.pages[p].lines # <<>>
  /\ result = [title |-> <<>>, outline |-> <<>>]

\* the stages that follow the computation of the baselines
AfterBaselines == {"score", "refine", "levels", "assemble"}

\* a step of a call that has parsed its pages leaves the font sizes, the bold
\* count and the number of lines alone, and the baselines once they are set
BaselinesKept ==
  pc \in {"title", "tables"} \cup AfterBaselines =>
    /\ font_sizes' = font_sizes
    /\ bold_count' = bold_count
    /\ Len(all_lines') = Len(all_lines)
    /\ (pc # "title" => title_median2' = title_median2)
    /\ (pc \in AfterBaselines => base' = base)

\* the baselines in use are the ones computed from all retained lines
BaselinesShared ==
  pc \in AfterBaselines =>
    /\ Len(font_sizes) = Len(all_lines)
    /\ title_median2 = Median2(font_sizes)
    /\ base.median2 = title_median2
    /\ base.bold_num = bold_count
    /\ base.bold_den = Len(all_lines)
    /\ \A i \in 1..Len(all_lines) :
          all_lines[i].has_score =>
             all_lines[i].size_ratio = <<2 * all_lines[i].size, title_median2>>

\* C9: the median handed to the title extractor, the median of the baselines
\* and the median in the size ratio of every scored line are one value, the
\* median of the font sizes of all retained lines; once parsing is over the
\* font sizes, the bold count and the number of lines do not change, and the
\* baselines, once computed, stay as they are until the call returns.
C9_BaselineInvariance == []BaselinesShared /\ [][BaselinesKept]_vars

\* scored lines, a title, bold lines, and a median that is no font size of a line
C9_Witness ==
  /\ pc = "assemble"
  /\ title # <<>>
  /\ base.bold_num > 0
  /\ \E i \in 1..Len(all_lines) : all_lines[i].has_score
  /\ \A i \in 1..Len(all_lines) : 2 * all_lines[i].size # base.median2

\* the font sizes of the candidates that were assigned the level
LevelSizes(level) ==
  LET mine(c) == all_lines[c].level = level
      idx == SelectSeq(candidates, mine)
  IN  [k \in 1..Len(idx) |-> all_lines[idx[k]].size]

\* mean(a) >= mean(b) for two non-empty sequences
MeanAtLeast(a, b) == SumSeq(a) * Len(b) >= SumSeq(b) * Len(a)

\* C10: after the clustering of two or more candidates, the mean font size of
\* the candidates assigned a level is at least that of the candidates assigned
\* a lower level, for the levels that are present.
C10_LevelMonotonicity ==
  (pc = "assemble" /\ Len(candidates) >= 2) =>
    \A a, b \in 1..3 :
       (a < b /\ LevelSizes(LevelName(a)) # <<>> /\ LevelSizes(LevelName(b)) # <<>>)
          => MeanAtLeast(LevelSizes(LevelName(a)), LevelSizes(LevelName(b)))

\* three levels with three different mean font sizes
C10_Witness ==
  /\ pc = "assemble"
  /\ Len(candidates) >= 6
  /\ ~MeanAtLeast(LevelSizes("H2"), LevelSizes("H1"))
  /\ ~MeanAtLeast(LevelSizes("H3"), LevelSizes("H2"))
  /\ LevelSizes("H3") # <<>>

\* the tops of the lines whose text is a serial number
SerialYs ==
  {all_lines[j].bbox[2] : j \in {k \in 1..Len(all_lines) : is_serial_number(all_lines[k].text)}}

\* the line is a serial number, or its top is within 8 points of one of ys
Near(i, ys) == \E y \in ys : Abs(all_lines[i].bbox[2] - y) <= 8

NearSerial(i) == Near(i, SerialYs)

IsBareUrl(text) ==
  FullMatch(<<Plus(AsciiLower \cup AsciiUpper), Lit(":"), Lit("/"), Lit("/"),
              Plus(Alphabet \ Spaces)>>, text)

\* the whole text is "Page 3 of 10" or a bare URL
IsFooterOrUrl(text) ==
  \/ text = <<"P","a","g","e"," ","3"," ","o","f"," ","1","0">>
  \/ IsBareUrl(text)

\* C12: no line whose whole text is "Page 3 of 10" or a bare URL is a
\* candidate, and no entry of a returned outline is the entry of such a line.
C12_FooterAndUrlNeverHeading ==
  /\ \A k \in 1..Len(candidates) : ~IsFooterOrUrl(all_lines[candidates[k]].text)
  /\ (pc = "returned" /\ result # <<>>) =>
        \A k \in 1..Len(result.outline) :
           \A p \in 1..Len(CurDoc.pages) :
              \A i \in 1..Len(CurDoc.pages[p].lines) :
                 (/\ Len(CurDoc.pages[p].lines[i].spans) > 0
                  /\ IsFooterOrUrl(RawText(CurDoc.pages[p].lines[i])))
                    => \/ result.outline[k].page # p - 1
                       \/ result.outline[k].text #
                            capitalize_first_letter(normalize_text(RawText(CurDoc.pages[p].lines[i])))

\* the worker's call has returned
Done(k) == workers[k].pc \in {"returned", "written"}

C14_WorkersDoNotInterfere ==
  \A k \in DOMAIN workers :
     Done(k) =>
       \A ref \in {Alone(dir[k], fit_memo)} :
          /\ workers[k].result = ref
          /\ outputs[k] # <<>> => outputs[k] = ref

\* the first worker has written an outline and a title while the second, on
\* another document, is in the middle of its call with lines of its own
C14_Witness ==
  /\ DOMAIN workers = {1, 2}
  /\ dir[1] # dir[2]
  /\ outputs[1] # <<>>
  /\ outputs[1].outline # <<>>
  /\ outputs[1].title # <<>>
  /\ workers[2].pc = "score"
  /\ workers[2].all_lines # <<>>
  /\ workers[2].font_sizes # workers[1].font_sizes

\* five or more words, no upper-case letter, a full stop at the end
IsLowercaseParagraph(text) ==
  /\ WordCount(text) >= 5
  /\ \A i \in 1..Len(text) : ~IsUpperChar(text[i])
  /\ text[Len(text)] = "."

\* one page: "Project Charter" 24pt bold centred at the top, a paragraph line
\* of five or more lowercase words, "1. Introduction" 14pt bold, a paragraph line
IsCharterDoc(doc) ==
  /\ ~doc.corrupt
  /\ Len(doc.pages) = 1
  /\ Len(doc.pages[1].lines) = 4
  /\ doc.pages[1].lines[1] = LTitle
  /\ IsLowercaseParagraph(RawText(doc.pages[1].lines[2]))
  /\ doc.pages[1].lines[3] = LNumbered
  /\ is_paragraph_content(RawText(doc.pages[1].lines[4]))

\* C15: for the one-page document "Project Charter", paragraph,
\* "1. Introduction", paragraph, the call returns the title "Project Charter"
\* and the outline of the one entry H1 "1. Introduction" on page 0.
C15_CharterScenario ==
  (pc = "returned" /\ fault = "none" /\ IsCharterDoc(CurDoc)) =>
    result = [title |-> <<"P","r","o","j","e","c","t"," ","C","h","a","r","t","e","r">>,
              outline |-> <<[level |-> "H1",
                             text |-> <<"1","."," ","I","n","t","r","o","d","u","c","t","i","o","n">>,
                             page |-> 0]>>]

\* the scenario with a first paragraph line that is_noise_content rejects for
\* its length
C15_Witness ==
  /\ pc = "returned"
  /\ fault = "none"
  /\ IsCharterDoc(CurDoc)
  /\ CurDoc.pages[1].lines[2] = LPara16
  /\ Len(all_lines) = 3
  /\ Len(result.outline) = 1

\* the page is a table: it starts with the serial number 1., the serial
\* numbers 2. and 3. follow in the same column, and every other line is a
\* cell of at most three words
IsTablePage(page) ==
  /\ ~page.unreadable
  /\ Len(page.lines) >= 3
  /\ \A i \in 1..Len(page.lines) : ~page.lines[i].bad /\ Len(page.lines[i].spans) > 0
  /\ RawText(page.lines[1]) = <<"1", ".">>
  /\ \A d \in {"2", "3"} :
        \E i \in 1..Len(page.lines) :
           RawText(page.lines[i]) = <<d, ".">> /\ page.lines[i].x0 = page.lines[1].x0
  /\ \A i \in 1..Len(page.lines) : WordCount(RawText(page.lines[i])) <= 3

\* the only text of the document is a table, without paragraph content
IsTableOnlyDoc(doc) ==
  /\ ~doc.corrupt
  /\ doc.pages # <<>>
  /\ \A p \in 1..Len(doc.pages) :
        /\ IsTablePage(doc.pages[p])
        /\ \A i \in 1..Len(doc.pages[p].lines) :
              ~is_paragraph_content(RawText(doc.pages[p].lines[i]))

\* C16: the outline returned for a document whose only text is a table
\* without paragraph content is empty.
C16_TableOnlyEmptyOutline ==
  (pc = "returned" /\ fault = "none" /\ IsTableOnlyDoc(CurDoc)) => result.outline = <<>>

\* a table with a large bold cell outside the rows that the scorer made a
\* candidate
C16_Witness ==
  /\ pc = "returned"
  /\ fault = "none"
  /\ IsTableOnlyDoc(CurDoc)
  /\ \E i \in 1..Len(all_lines) :
        /\ all_lines[i].has_score
        /\ all_lines[i].is_bold
        /\ ~is_in_table_row(all_lines[i].bbox, table_y_coords)
  /\ result.outline = <<>>

\* line b is a horizontal neighbour of line a: on the same page, later in the
\* order by (Y, X), its Y within 10 points, its left edge 50 points or more
\* past the right edge of a
IsHorizontalNeighbour(a, b) ==
  /\ b.page = a.page
  /\ (b.bbox[2] > a.bbox[2] \/ (b.bbox[2] = a.bbox[2] /\ b.bbox[1] > a.bbox[1]))
  /\ Abs(b.bbox[2] - a.bbox[2]) <= 10
  /\ b.bbox[1] - a.bbox[3] >= 50

\* the members of a sequence of candidates
Members(cs) == {cs[k] : k \in 1..Len(cs)}

\* C17: a candidate that has horizontal neighbours among the candidates
\* given to filter_horizontal_table_headers, and is itself the neighbour of
\* none, is in the output of the filter, and its neighbours are not.
C17_HeaderKeptNeighboursRemoved ==
  pc = "refine" =>
    \A input \in {filter_inconsistent_formatting(all_lines, candidates)} :
       \A out \in {Members(filter_horizontal_table_headers(all_lines, input))} :
          \A c \in Members(input) :
             \A nb \in {{d \in Members(input) : IsHorizontalNeighbour(all_lines[c], all_lines[d])}} :
                (/\ nb # {}
                 /\ \A d \in Members(input) : ~IsHorizontalNeighbour(all_lines[d], all_lines[c]))
                   => (c \in out /\ nb \cap out = {})

\* the title candidates within one point of the largest size, in the line
\* order of the first page
LargestOfFirstPage ==
  LargestCandidates(TitleCandidates([k \in 1..Len(first_page_elements) |->
                                       all_lines[first_page_elements[k]]], page_height))

\* C18: when two or more of the largest title candidates have the highest
\* score, the title is the text of the first of them in the line order of
\* the first page.
C18_TitleTieFirstEncountered ==
  (pc = "tables" /\ first_page_elements # <<>>) =>
    \A big \in {LargestOfFirstPage} :
       \A sc \in {[i \in 1..Len(big) |-> TitleScore(big[i], title_median2, page_height)]} :
          \A top \in {i \in 1..Len(big) : \A j \in 1..Len(big) : sc[j] <= sc[i]} :
             (/\ \E other \in 1..Len(big) : other # top /\ sc[other] = sc[top]
              /\ \A j \in 1..(top - 1) : sc[j] < sc[top])
                => title = capitalize_first_letter(normalize_text(big[top].text))

\* among the at most 15 lines after line c that lie no more than 2 pages
\* after it, one is paragraph content and has the text of no candidate
ParagraphBelowOwnPosition(c, input) ==
  \E i \in (c + 1)..Len(all_lines) :
     /\ i <= c + 15
     /\ all_lines[i].page <= all_lines[c].page + 2
     /\ is_paragraph_content(all_lines[i].text)
     /\ \A d \in Members(input) : all_lines[i].text # all_lines[d].text

\* C19: filter_headings_with_content keeps exactly the candidates that have
\* paragraph content below their own position.
C19_KeptIffParagraphBelow ==
  pc = "refine" =>
    \A input \in {filter_horizontal_table_headers(all_lines,
                     filter_inconsistent_formatting(all_lines, candidates))} :
       Members(filter_headings_with_content(all_lines, input))
         = {c \in Members(input) : ParagraphBelowOwnPosition(c, input)}

\* sizeRatio = fontSize / medianFontSize exceeds n / 100
SizeRatioAbove(i, n) == 2 * all_lines[i].size * 100 > n * base.median2

\* boldFrequency < 0.2
BoldIsRare == 5 * base.bold_num < base.bold_den

\* the first of the three size and bold bonuses that applies
SizeBoldBonus(i) ==
  IF SizeRatioAbove(i, 130) THEN 4
  ELSE IF SizeRatioAbove(i, 115) /\ all_lines[i].is_bold THEN 3
  ELSE IF all_lines[i].is_bold /\ BoldIsRare THEN 3
  ELSE 0

\* the bonuses that add up whatever the others are
IndependentBonuses(i) ==
  LET words == Split(all_lines[i].text)
      gap == IF i > 1 /\ all_lines[i - 1].page = all_lines[i].page
             THEN all_lines[i].bbox[2] - all_lines[i - 1].bbox[4] ELSE 0
      capitalized == {k \in 1..Len(words) : IsUpperChar(words[k][1])}
  IN  (IF gap > 20 THEN 2 ELSE 0)
    + (IF NumberedMarker(all_lines[i].text) THEN 3 ELSE 0)
    + (IF Len(words) <= 6 /\ all_lines[i].is_bold THEN 2 ELSE 0)
    + (IF Len(words) > 0 /\ 10 * Cardinality(capitalized) > 7 * Len(words) THEN 2 ELSE 0)

\* the line is not the title, is a valid heading and is in no table row
Eligible(i) ==
  /\ ~IsTitleLine(all_lines[i], title)
  /\ is_valid_heading(all_lines[i].text)
  /\ ~is_in_table_row(all_lines[i].bbox, table_y_coords)

\* C20: when the scoring loop has ended, a line is a candidate if and only if it
\* is not the title, is a valid heading, is in no table row, and the sum of
\* its one size and bold bonus and its independent bonuses is 4 or more; the
\* score recorded for a candidate is that sum.
C20_ScoreAndThreshold ==
  pc = "refine" =>
    \A i \in 1..Len(all_lines) :
       /\ all_lines[i].has_score <=>
            (Eligible(i) /\ SizeBoldBonus(i) + IndependentBonuses(i) >= 4)
       /\ all_lines[i].has_score =>
            all_lines[i].score = SizeBoldBonus(i) + IndependentBonuses(i)
       /\ all_lines[i].has_score <=> \E k \in 1..Len(candidates) : candidates[k] = i

\* a bold candidate more than 1.3 times the median, for which two of the
\* size and bold bonuses apply, and an eligible line below the threshold
C20_Witness ==
  /\ pc = "refine"
  /\ \E i \in 1..Len(all_lines) :
        /\ all_lines[i].has_score
        /\ SizeRatioAbove(i, 130)
        /\ all_lines[i].is_bold
        /\ all_lines[i].score = 4 + IndependentBonuses(i)
  /\ \E i \in 1..Len(all_lines) :
        /\ Eligible(i)
        /\ ~all_lines[i].has_score
        /\ SizeBoldBonus(i) + IndependentBonuses(i) > 0

\* the sequence a holds candidates of b only, each at most once
OnlyRemoved(a, b) == Members(a) \subseteq Members(b) /\ Cardinality(Members(a)) = Len(a)

\* C21: the output of each of the three refiner filters, applied in the order
\* formatting consistency, horizontal table header, paragraph below, holds
\* candidates of its input only; from the end of the scoring on every candidate
\* is a line the scorer accepted with a score of 4 or more, and every entry of
\* a returned outline is the entry of such a candidate.
C21_CandidatesOnlyRemoved ==
  /\ pc = "refine" =>
        \A c1 \in {filter_inconsistent_formatting(all_lines, candidates)} :
           \A c2 \in {filter_horizontal_table_headers(all_lines, c1)} :
              \A c3 \in {filter_headings_with_content(all_lines, c2)} :
                 /\ OnlyRemoved(c1, candidates)
                 /\ OnlyRemoved(c2, c1)
                 /\ OnlyRemoved(c3, c2)
                 /\ candidates # <<>> => Refine(all_lines, candidates) = c3
  /\ pc \in {"refine", "levels", "assemble", "returned"} =>
        \A k \in 1..Len(candidates) :
           all_lines[candidates[k]].has_score /\ all_lines[candidates[k]].score >= 4
  /\ (pc = "returned" /\ result # <<>> /\ result.outline # <<>>) =>
        \A built \in {BuildOutline(all_lines, candidates)} :
           \A k \in 1..Len(result.outline) :
              \E j \in 1..Len(candidates) : result.outline[k] = built[j]

\* a returned outline of a call in which the refiner removed a scored line
C21_Witness ==
  /\ pc = "returned"
  /\ result # <<>>
  /\ result.outline # <<>>
  /\ \E i \in 1..Len(all_lines) :
        all_lines[i].has_score /\ \A k \in 1..Len(candidates) : candidates[k] # i

\* the first-page lines, by position in first_page_elements, that lie in the
\* top 60% of the page, pass is_valid_title and are not wrapped in parentheses
TitleEligible ==
  {k \in 1..Len(first_page_elements) :
     \E e \in {all_lines[first_page_elements[k]]} :
        /\ 10 * e.bbox[2] <= 6 * page_height
        /\ is_valid_title(e.text)
        /\ ~(e.text[1] = "(" /\ e.text[Len(e.text)] = ")")}

\* those of them whose font size is within 1.0pt of the largest among them
TitleLargest(eligible) ==
  {k \in eligible :
     \A j \in eligible :
        all_lines[first_page_elements[k]].size >= all_lines[first_page_elements[j]].size - 1}

\* C22: a non-empty title returned by extract_title is capitalize_first_letter
\* of the normalized text of a first-page line in the top 60% of the page that
\* passes is_valid_title, is not wrapped in parentheses and whose size is within
\* 1.0pt of the largest size among such lines; when there is exactly one such
\* line the title is that line's, and when there is none the title is empty.
C22_TitleSelection ==
  pc = "tables" =>
    \A largest \in {TitleLargest(TitleEligible)} :
       /\ title # <<>> =>
             \E k \in largest :
                title = capitalize_first_letter(normalize_text(all_lines[first_page_elements[k]].text))
       /\ \A k \in largest :
             largest = {k} =>
                title = capitalize_first_letter(normalize_text(all_lines[first_page_elements[k]].text))
       /\ largest = {} => title = <<>>

\* the only line of the largest size is plain and lies below a smaller bold
\* heading that scores higher as a title
C22_Witness ==
  /\ pc = "tables"
  /\ title # <<>>
  /\ \E k \in TitleLargest(TitleEligible) :
        /\ TitleLargest(TitleEligible) = {k}
        /\ \E j \in TitleEligible :
              TitleScore(all_lines[first_page_elements[j]], title_median2, page_height)
                > TitleScore(all_lines[first_page_elements[k]], title_median2, page_height)

\* the levels written to the candidates
CandidateLevelSet == {all_lines[candidates[k]].level : k \in 1..Len(candidates)}

\* the number of clusters the claim gives for n candidates
ClaimedClusters(n) == IF n <= 5 THEN 2 ELSE 3

\* C23: a call with no refined candidate returns an empty outline and assigns
\* no level; one refined candidate gets H1; n >= 2 refined candidates are split
\* into k = min(3, max(2, n // 2)) non-empty clusters, k = 2 for n <= 5 and
\* k = 3 for n >= 6, every candidate has one of the levels H1..Hk and each of
\* these levels is used, in the outline before its deduplication as well.
C23_LevelsByCount ==
  /\ pc \in {"levels", "assemble"} => candidates # <<>>
  /\ (pc = "returned" /\ fault = "none" /\ candidates = <<>>) => result.outline = <<>>
  /\ pc = "assemble" =>
        \A n \in {Len(candidates)} :
           \A built \in {BuildOutline(all_lines, candidates)} :
              /\ n = 1 => (labels = <<>> /\ CandidateLevelSet = {"H1"})
              /\ n >= 2 =>
                    \A k \in {ClaimedClusters(n)} :
                       /\ (k = 3 \/ 2 >= n \div 2) /\ (k = 2 \/ 3 <= n \div 2)
                       /\ Len(labels) = n
                       /\ Cardinality({labels[i] : i \in 1..n}) = k
                       /\ CandidateLevelSet = {LevelName(r) : r \in 1..k}
              /\ Len(built) = n
              /\ \A i \in 1..n : built[i].level = all_lines[candidates[i]].level
              /\ {built[i].level : i \in 1..n} = CandidateLevelSet

\* six candidates in three clusters, one of them a cluster of one candidate
C23_Witness ==
  /\ pc = "assemble"
  /\ Len(candidates) = 6
  /\ CandidateLevelSet = {"H1", "H2", "H3"}
  /\ \E c \in 0..2 : Cardinality({i \in 1..6 : labels[i] = c}) = 1

\* (page, Y of the first candidate whose normalized lowercase text matches
\* that of the entry)
EntryKey(e) ==
  <<e.page,
    all_lines[candidates[MinOf({j \in 1..Len(candidates) :
        Lower(normalize_text(all_lines[candidates[j]].text)) = Lower(normalize_text(e.text))})]].bbox[2]>>

\* the candidates, by position, whose text is that of candidate j up to case
SameTextNoCase(j) ==
  {i \in 1..Len(candidates) :
     Lower(all_lines[candidates[i]].text) = Lower(all_lines[candidates[j]].text)}

\* the first of them in the sorted order: the lowest page, and on one page
\* the first in candidate order
FirstSorted(G) ==
  CHOOSE i \in G :
     \A h \in G :
        \/ all_lines[candidates[i]].page < all_lines[candidates[h]].page
        \/ all_lines[candidates[i]].page = all_lines[candidates[h]].page /\ i <= h

\* C24: the entries of a returned outline are in the order of (page, Y of the
\* first candidate whose normalized lowercase text matches the entry), and of
\* the entries of two or more candidates that share a text up to case exactly
\* one is in the outline: the entry of the first of them in that order, the
\* occurrence on the lowest page.
C24_SortedAndFirstKept ==
  (pc = "returned" /\ fault = "none" /\ result.outline # <<>>) =>
    \A built \in {BuildOutline(all_lines, candidates)} :
       /\ \A k \in 1..(Len(result.outline) - 1) :
             ~TupleLess(EntryKey(result.outline[k + 1]), EntryKey(result.outline[k]))
       /\ \A j \in 1..Len(candidates) :
             \A G \in {SameTextNoCase(j)} :
                Cardinality(G) >= 2 =>
                  /\ Cardinality({k \in 1..Len(result.outline) :
                                    \E i \in G : result.outline[k] = built[i]}) = 1
                  /\ \E k \in 1..Len(result.outline) : result.outline[k] = built[FirstSorted(G)]

\* a step of the scorer, the refiner, the level assigner or the assembler
\* leaves the line sequence and every line record as they are
LinesKept ==
  pc \in {"tables", "score", "refine", "levels", "assemble"} => all_lines' = all_lines

\* C25: after parsing, the table detection, the scoring, the refining, the
\* level assignment and the assembly leave the order of the document line
\* sequence and every line record, with its set of fields, unchanged: no
\* candidate data is written into the line records.
C25_LinesImmutableAfterParsing == [][LinesKept]_vars

\* C26: the table rows are pooled over the pages: every Y of a serial-number
\* line of any page is a table row, and a line of any page whose top is within
\* 8 points, 8 included, of the Y of a serial-number line of any page is
\* suppressed by the scorer and is no candidate.
C26_TableRowsPooledOverPages ==
  /\ pc = "score" =>
        \A ys \in {SerialYs} :
           /\ ys \subseteq table_y_coords
           /\ \A i \in 1..Len(all_lines) :
                 Near(i, ys) => is_in_table_row(all_lines[i].bbox, table_y_coords)
  /\ pc = "refine" =>
        \A ys \in {SerialYs} :
           \A i \in 1..Len(all_lines) :
              Near(i, ys) => (~all_lines[i].has_score /\ \A k \in 1..Len(candidates) : candidates[k] # i)

\* a bold heading that scores 4 or more, on a page without serial numbers,
\* exactly 8 points from the Y of a serial number of another page, is no
\* candidate, while a heading of its page is
C26_Witness ==
  /\ pc = "refine"
  /\ candidates # <<>>
  /\ \E i \in 1..Len(all_lines) :
        /\ ~all_lines[i].has_score
        /\ ~IsTitleLine(all_lines[i], title)
        /\ is_valid_heading(all_lines[i].text)
        /\ Score(all_lines, i, base) >= 4
        /\ \A j \in 1..Len(all_lines) :
              all_lines[j].page = all_lines[i].page => ~is_serial_number(all_lines[j].text)
        /\ \E j \in 1..Len(all_lines) :
              /\ is_serial_number(all_lines[j].text)
              /\ all_lines[j].page # all_lines[i].page
              /\ all_lines[i].bbox[2] - all_lines[j].bbox[2] = 8
        /\ all_lines[candidates[1]].page = all_lines[i].page

\* the levels of the entries of the returned outline
OutlineLevels == {result.outline[k].level : k \in 1..Len(result.outline)}

\* C27: a returned outline that is not empty has an H1 entry, and has an H3
\* entry only if it has an H2 entry, the deduplication included.
C27_OutlineStartsAtH1 ==
  (pc = "returned" /\ result # <<>> /\ result.outline # <<>>) =>
    /\ "H1" \in OutlineLevels
    /\ "H3" \in OutlineLevels => "H2" \in OutlineLevels

\* the positions <<page, line>> of the raw lines of the first n pages
RawPositions(n) ==
  UNION {{<<p, i>> : i \in 1..Len(CurDoc.pages[p].lines)} : p \in 1..n}

\* the raw lines of the document
RawLines ==
  {CurDoc.pages[q[1]].lines[q[2]] : q \in RawPositions(Len(CurDoc.pages))}

\* C28: no line of the document line set is noise under is_noise_content;
\* the font sizes and the bold count are those of the retained lines only, the
\* predecessor in the vertical gap of a scored line is a retained line, and
\* no noise line of the document is paragraph content.
C28_NoRetainedLineIsNoise ==
  /\ pc \in {"parse", "title"} =>
        /\ \A i \in 1..Len(all_lines) : ~is_noise_content(all_lines[i].text)
        /\ font_sizes = [i \in 1..Len(all_lines) |-> all_lines[i].size]
        /\ bold_count = Cardinality({i \in 1..Len(all_lines) : all_lines[i].is_bold})
        /\ Len(all_lines) <=
              Cardinality({q \in RawPositions(page_num) :
                             \E raw \in {CurDoc.pages[q[1]].lines[q[2]]} :
                                /\ Len(raw.spans) > 0
                                /\ RawText(raw) # <<>>
                                /\ ~is_noise_content(RawText(raw))})
  /\ pc = "open" =>
        \A raw \in RawLines :
           (Len(raw.spans) > 0 /\ is_noise_content(RawText(raw)))
              => ~is_paragraph_content(RawText(raw))
  /\ pc = "refine" =>
        \A i \in 1..Len(all_lines) :
           all_lines[i].has_score =>
              all_lines[i].vertical_gap =
                 IF i > 1 /\ all_lines[i - 1].page = all_lines[i].page
                 THEN all_lines[i].bbox[2] - all_lines[i - 1].bbox[4] ELSE 0

\* a line of 16 words between the title and a heading is not in the line
\* set: the gap of the heading is the one to the title
C28_Witness ==
  /\ pc = "refine"
  /\ Len(CurDoc.pages) = 1
  /\ Len(CurDoc.pages[1].lines) = 4
  /\ WordCount(RawText(CurDoc.pages[1].lines[2])) > 15
  /\ Len(all_lines) = 3
  /\ font_sizes = <<24, 14, 12>>
  /\ all_lines[2].has_score
  /\ all_lines[2].vertical_gap = all_lines[2].bbox[2] - all_lines[1].bbox[4]

\* the last line of the document with the text of line c
LastLineWithTextOf(c) == MaxOf({i \in 1..Len(all_lines) : all_lines[i].text = all_lines[c].text})

\* C29: filter_headings_with_content keeps a candidate exactly when there is
\* paragraph content below the last line of the document with the candidate's
\* text, so that candidates with the same text are all kept or all dropped.
C29_VerdictByTextAtLastLine ==
  pc = "refine" =>
    \A input \in {filter_horizontal_table_headers(all_lines,
                     filter_inconsistent_formatting(all_lines, candidates))} :
       \A out \in {Members(filter_headings_with_content(all_lines, input))} :
          /\ \A c \in Members(input) :
                c \in out <=> ParagraphBelowOwnPosition(LastLineWithTextOf(c), input)
          /\ \A c, d \in Members(input) :
                all_lines[c].text = all_lines[d].text => (c \in out <=> d \in out)

\* two candidates with one text, the first with paragraph content below it,
\* the second, the last line with that text, without: both are dropped
C29_Witness ==
  /\ pc = "refine"
  /\ \E c, d \in Members(filter_horizontal_table_headers(all_lines,
                        filter_inconsistent_formatting(all_lines, candidates))) :
        /\ c < d
        /\ all_lines[c].text = all_lines[d].text
        /\ LastLineWithTextOf(c) = d
        /\ ParagraphBelowOwnPosition(c, candidates)
        /\ ~ParagraphBelowOwnPosition(d, candidates)
        /\ \A k \in 1..Len(Refine(all_lines, candidates)) :
              Refine(all_lines, candidates)[k] \notin {c, d}

\* the retained lines that are bold
BoldLines == {i \in 1..Len(all_lines) : all_lines[i].is_bold}

\* C30: during and after the page loop, whatever pages raised, there is one
\* recorded font size per retained line and the bold count is the number of
\* retained bold lines; the bold frequency of the baselines is a fraction
\* between 0 and 1 of the number of retained lines.
C30_BaselinesInStep ==
  /\ pc \in {"parse", "title", "tables", "score"} =>
        /\ Len(font_sizes) = Len(all_lines)
        /\ bold_count = Cardinality(BoldLines)
        /\ 0 <= bold_count /\ bold_count <= Len(all_lines)
  /\ pc = "score" =>
        /\ base.bold_den = Len(all_lines)
        /\ base.bold_den > 0
        /\ 0 <= base.bold_num /\ base.bold_num <= base.bold_den

\* parsing has ended after a page that raised part-way: lines of that page
\* are retained, some bold and some not, one of them with two spans
C30_Witness ==
  /\ pc = "title"
  /\ skipped # {}
  /\ \E i \in 1..Len(all_lines) : all_lines[i].page \in skipped
  /\ \E i \in 1..Len(all_lines) : Len(all_lines[i].spans) = 2
  /\ 0 < bold_count /\ bold_count < Len(all_lines)

====
